---- MODULE Spec2Model ----
(***************************************************************************)
(* Entry synchronisation of toggl2clockify (package converter): the        *)
(* rate-limited request gateway, the cached entity lists, the paginated    *)
(* fetch, the entry model with its duplicate detector, the user identity   *)
(* reconciliation, the threaded submission of one page of entries, the     *)
(* report streamer and the phases of import_workspace.                     *)
(*                                                                         *)
(* Python values are modelled with their dynamic type where the code       *)
(* compares or looks up values of different types: a call returns          *)
(* [kind |-> "return", ...] or [kind |-> "raise", exc |-> <exception>].    *)
(***************************************************************************)
EXTENDS Integers, Sequences, FiniteSets, TLC

VARIABLES
    time_per_request,   \* ClockifyAPI.time_per_request, in microseconds
    n_requests,         \* the number of requests that reached Target
    gw,                 \* the last call of ClockifyAPI.request and its result
    need_resync,        \* CachedList.need_resync of every cached list
    data,               \* CachedList.data of every cached list (entity names)
    t_entities,         \* Target: the entity names of the workspace, per kind
    t_users,            \* Target: the users of the workspace
    created,            \* per kind, the names whose create call succeeded
    cache_op,           \* the last add_* / get_* call and its result
    mg,                 \* the running call of multi_get_request
    cfg,                \* Clue._workspace, Clue._skip_inv_toggl_users and
                        \* ClockifyAPI.fallback_email
    toggl_resync_users, \* TogglAPI._resync_users
    ve,                 \* the last call of Clue.verify_email and its result
    t_entries,          \* Target: the time entries, in the order of creation
    reports,            \* Source: the pages of report rows get_reports delivers
    batch,              \* the running call of add_entries_threaded
    w,                  \* the tasks of the thread pool, one per queued entry
    sync,               \* Clue's counters and the progress of sync_entries
    pf,                 \* the last call of a single function and its result
    st,                 \* the running call of TogglAPI.get_reports
    ph,                 \* the running call of import_workspace
    tm,                 \* the clock and the workers' calls of _request
    dl                  \* the running call of delete_user_entries

gw_vars == <<time_per_request, n_requests, gw>>
cache_vars == <<need_resync, data, t_entities, t_users, created, cache_op>>
user_vars == <<cfg, toggl_resync_users, ve>>
entry_vars == <<t_entries, reports, batch, w, sync>>
rest_vars == <<pf, st, ph, tm, dl>>
vars == <<gw_vars, cache_vars, mg, user_vars, entry_vars, rest_vars>>

----------------------------------------------------------------------------
\* Python values

None == "None"

PyNone == [ty |-> "NoneType", v |-> None]
PyStr(s) == [ty |-> "str", v |-> s]
PyDict(d) == [ty |-> "dict", v |-> d]

\* Python's == between values of possibly different types
PyEq(a, b) == a.ty = b.ty /\ a.v = b.v

Min(S) == CHOOSE x \in S : \A y \in S : x <= y

\* a Python value that may be None: <<>> for None, <<v>> for the value v
NoneOf == <<>>
Some(v) == <<v>>

\* the outcome of a call: it returns a value or raises an exception
Ret(v) == [kind |-> "return", exc |-> None, val |-> v]
Raise(exc) == [kind |-> "raise", exc |-> exc, val |-> None]

\* the id Target gave the entity of a name
IdOf(name) == "id:" \o name

----------------------------------------------------------------------------
\* Bounds of the model

MaxCalls == 3
MaxItems == 101        \* the most items the paged server holds
MaxThrottles == 2      \* the most 429 answers within one paginated fetch
MaxBatch == 2          \* the most rows of one page of reports
MaxPages == 2          \* the most pages of reports
MaxReportPages == 2    \* the most pages with rows of one date window
MaxResults == 3        \* the most results of one counted page
MaxTicks == 4          \* the most steps of the clock

----------------------------------------------------------------------------
\* ClockifyAPI: construction

requests_per_second == 10

\* time_per_request = 1.0 / requests_per_second, in microseconds
TimePerRequest0 == 1000000 \div requests_per_second

\* _api_users after _test_tokens accepted every configured token
api_users ==
    << [token |-> "key_admin", email |-> "admin@co", clockify_id |-> "u_admin"],
       [token |-> "key_alice", email |-> "alice@co", clockify_id |-> "u_alice"] >>

admin_email == "admin@co"

\* first(the_iterable, condition) for _api_users and the condition x.email == email:
\* the index of the first match, 0 for None
first_api_user(email) ==
    LET m == {i \in DOMAIN api_users : PyEq(PyStr(api_users[i].email), email)}
    IN  IF m = {} THEN 0 ELSE Min(m)

\* _get_api_key(email): user.token, an AttributeError when first() gave None
get_api_key(email) ==
    LET i == first_api_user(email)
    IN  IF i = 0
        THEN [kind |-> "raise", exc |-> "AttributeError", val |-> None]
        ELSE [kind |-> "return", exc |-> None, val |-> api_users[i].token]

----------------------------------------------------------------------------
\* The rate-limited request gateway

HttpMethods == {"GET", "PUT", "POST", "DELETE"}

\* the interval after a 429: time_per_request *= 1.1
backoff(tpr) == (tpr * 11) \div 10

RECURSIVE request(_, _, _, _, _, _)
RECURSIVE request_inner(_, _, _, _, _, _)

\* a request sent under one acting identity of the process, the admin's,
\* whatever the email it is called with
request_as_admin(url, email, body, typ, statuses, tpr) ==
    request_inner(url, api_users[1].token, body, typ, statuses, tpr)

\* request(url, email, body, typ); statuses are Target's answers to the
\* successive requests on the wire, tpr the interval at the time of the call.
\* The result carries the requests sent and the interval left behind.
request(url, email, body, typ, statuses, tpr) ==
    LET key == get_api_key(email)
    IN  IF key.kind = "raise"
        THEN [kind |-> "raise", exc |-> key.exc, status |-> 0,
              sent |-> <<>>, tpr |-> tpr]
        ELSE request_inner(url, key.val, body, typ, statuses, tpr)

\* a _request that raises for every status that is not a success
request_inner_raising(url, api_token, body, typ, statuses, tpr) ==
    [kind |-> IF Head(statuses) >= 400 THEN "raise" ELSE "return",
     exc |-> IF Head(statuses) >= 400 THEN "HTTPError" ELSE None,
     status |-> Head(statuses),
     sent |-> <<[typ |-> typ, url |-> url, token |-> api_token,
                 body |-> IF typ = "DELETE" THEN PyNone ELSE body]>>,
     tpr |-> tpr]

\* _request(url, api_token, body, typ)
request_inner(url, api_token, body, typ, statuses, tpr) ==
    IF typ \notin HttpMethods
    THEN [kind |-> "raise", exc |-> "RuntimeError", status |-> 0,
          sent |-> <<>>, tpr |-> tpr]
    ELSE
        LET req == [typ |-> typ, url |-> url, token |-> api_token,
                    body |-> IF typ = "DELETE" THEN PyNone ELSE body]
            status == Head(statuses)
        IN  IF status = 429
            THEN \* return self.request(url, body, typ): body is bound to the
                 \* parameter email, typ to the parameter body, typ defaults to "GET"
                 LET retry == request(url, body, PyStr(typ), "GET",
                                      Tail(statuses), backoff(tpr))
                 IN  [retry EXCEPT !.sent = <<req>> \o @]
            ELSE [kind |-> "return", exc |-> None, status |-> status,
                  sent |-> <<req>>, tpr |-> tpr]

Urls == {"/workspaces/ws/clients", "/workspaces/ws/time-entries"}
Emails == {"admin@co", "alice@co", "ghost@co"}
Bodies == {PyNone, PyDict("name=Acme")}
Statuses == {200, 400, 429, 500}

NoCall == [typ |-> None, url |-> None, email |-> None, body |-> PyNone,
           statuses |-> <<>>, kind |-> None, exc |-> None, status |-> 0,
           sent |-> <<>>, tpr0 |-> 0]

----------------------------------------------------------------------------
\* The cached entity lists and the calls that create entities

Kinds == {"projects", "users", "usergroups", "tags", "clients"}

\* CachedList(url, name, multi) as constructed by ClockifyAPI.__init__
multi == [k \in Kinds |-> k # "users"]

Workspaces == {"ws"}

\* get_workspace_id(workspace_name)
get_workspace_id(workspace) ==
    IF workspace \in Workspaces
    THEN [kind |-> "return", exc |-> None, val |-> workspace]
    ELSE [kind |-> "raise", exc |-> "RuntimeError", val |-> None]

\* Python's binding of a call's arguments to the parameters of a function:
\* params are the parameter names after self, the last ndefaults of them have
\* defaults; the call passes npos positional arguments and the keywords kw.
\* The call raises TypeError unless this holds.
BindsOk(params, ndefaults, npos, kw) ==
    /\ npos <= Len(params)
    /\ \A k \in kw : \E i \in (npos + 1)..Len(params) : params[i] = k
    /\ \A i \in (npos + 1)..(Len(params) - ndefaults) : params[i] \in kw

\* def multi_get_request(self, url, email)
sig_multi_get_request == [params |-> <<"url", "email">>, ndefaults |-> 0]
\* def request(self, url, email, body=None, typ="GET")
sig_request == [params |-> <<"url", "email", "body", "typ">>, ndefaults |-> 2]

\* a refresh whose call of the gateway binds: it fetches what Target holds
refresh_data_binds(k, listing) ==
    [kind |-> "return", exc |-> None, data |-> listing, fetches |-> 1]

\* CachedList.refresh_data(api, args) of list k; listing is what Target holds
refresh_data(k, listing) ==
    LET bound == IF multi[k]
                 THEN \* api.multi_get_request(url, sudo=True)
                      BindsOk(sig_multi_get_request.params,
                              sig_multi_get_request.ndefaults, 1, {"sudo"})
                 ELSE \* api.request(url, typ="GET", sudo=True)
                      BindsOk(sig_request.params,
                              sig_request.ndefaults, 1, {"typ", "sudo"})
    IN  IF bound
        THEN [kind |-> "return", exc |-> None, data |-> listing, fetches |-> 1]
        ELSE [kind |-> "raise", exc |-> "TypeError", data |-> {}, fetches |-> 0]

\* CachedList.get_data(api, args) of list k: the result, with the flag and the
\* data the call leaves behind
get_data(k, flag, cached, listing) ==
    IF flag
    THEN LET r == refresh_data(k, listing)
         IN  IF r.kind = "raise"
             THEN [kind |-> "raise", exc |-> r.exc, val |-> {}, fetches |-> 0,
                   flag |-> flag, data |-> cached]
             ELSE [kind |-> "return", exc |-> None, val |-> r.data,
                   fetches |-> r.fetches, flag |-> FALSE, data |-> r.data]
    ELSE [kind |-> "return", exc |-> None, val |-> cached, fetches |-> 0,
          flag |-> flag, data |-> cached]

\* get_projects / get_users / get_usergroups / get_tags / get_clients (workspace)
get_entities(k, workspace, flag, cached, listing) ==
    LET ws == get_workspace_id(workspace)
    IN  IF ws.kind = "raise"
        THEN [kind |-> "raise", exc |-> ws.exc, val |-> {}, fetches |-> 0,
              flag |-> flag, data |-> cached]
        ELSE get_data(k, flag, cached, listing)

\* requests.Response.ok
Ok(status) == status < 400

\* the status codes that make the add_* call of kind k report RetVal.OK
created_status(k, status) ==
    IF k = "clients" THEN Ok(status) ELSE status = 201

\* the RetVal of add_client / add_tag / add_usergroup / add_project
add_retval(k, status) ==
    IF created_status(k, status) THEN "OK"
    ELSE IF status = 400 THEN "EXISTS"
    ELSE IF status = 403 /\ k = "projects" THEN "FORBIDDEN"
    ELSE "ERR"

Names == {"Acme", "Beta"}

\* the users Target may hold in the workspace: id, display name and email
TargetUserSets ==
    { {[id |-> "u_admin", name |-> "admin", email |-> "admin@co"]},
      {[id |-> "u_admin", name |-> "admin", email |-> "admin@co"],
       [id |-> "u_alice", name |-> "alice", email |-> "alice@co"]},
      {[id |-> "u_admin", name |-> "admin", email |-> "admin@co"],
       [id |-> "u_alice", name |-> "alice", email |-> "alice@work"]} }
CreateKinds == Kinds \ {"users"}

\* Target's answer to a create request
CreateStatuses(k, name) ==
    (IF name \in t_entities[k] THEN {400} ELSE {201}) \cup {429, 500}

NoCacheOp == [op |-> None, k |-> None, name |-> None, kind |-> None,
              exc |-> None, retval |-> None, val |-> {}, fetches |-> 0,
              flag0 |-> FALSE, null_ok |-> FALSE]

\* add_client(name, workspace), add_tag(tag_name, workspace),
\* add_usergroup(group_name, workspace), and add_project(project) for a
\* project without client, memberships and hourly rate
AddEntity(k, name, status) ==
    /\ n_requests < MaxCalls
    /\ status \in CreateStatuses(k, name)
    /\ LET r == request("/workspaces/ws/" \o k, PyStr(admin_email),
                        PyDict(name), "POST", <<status, 200>>, time_per_request)
           rv == IF r.kind = "raise" THEN None ELSE add_retval(k, r.status)
       IN  /\ time_per_request' = r.tpr
           /\ n_requests' = n_requests + Len(r.sent)
           /\ t_entities' = IF status = 201
                            THEN [t_entities EXCEPT ![k] = @ \cup {name}]
                            ELSE t_entities
           /\ need_resync' = IF rv = "OK"
                             THEN [need_resync EXCEPT ![k] = TRUE]
                             ELSE need_resync
           /\ created' = IF rv = "OK"
                         THEN [created EXCEPT ![k] = @ \cup {name}]
                         ELSE created
           /\ cache_op' = [op |-> "add", k |-> k, name |-> name,
                           kind |-> r.kind, exc |-> r.exc, retval |-> rv,
                           val |-> {}, fetches |-> 0, flag0 |-> need_resync[k],
                           null_ok |-> FALSE]
           /\ UNCHANGED <<data, gw, t_users, mg, user_vars, entry_vars, rest_vars>>

\* what Target lists for kind k
listing(k) == IF k = "users" THEN t_users ELSE t_entities[k]

\* get_clients(workspace) and the other reads of a cached list
GetEntities(k, workspace) ==
    LET r == get_entities(k, workspace, need_resync[k], data[k], listing(k))
    IN  /\ need_resync' = [need_resync EXCEPT ![k] = r.flag]
        /\ data' = [data EXCEPT ![k] = r.data]
        /\ n_requests' = n_requests + r.fetches
        /\ cache_op' = [op |-> "get", k |-> k, name |-> workspace,
                        kind |-> r.kind, exc |-> r.exc, retval |-> None,
                        val |-> r.val, fetches |-> r.fetches,
                        flag0 |-> need_resync[k], null_ok |-> FALSE]
        /\ UNCHANGED <<time_per_request, gw, t_entities, t_users, created, mg,
                       user_vars, entry_vars, rest_vars>>

\* the names and emails by which an entity of kind k is looked up
LookupNames(k) == IF k = "users" THEN {"admin@co", "alice@co"} ELSE Names

\* the id of the entity called name in a list of kind k, None without one:
\* first(items, lambda x: x["name"] == name), x["email"] for a user
first_id(k, name, items) ==
    IF k = "users"
    THEN IF \E u \in items : u.email = name
         THEN (CHOOSE u \in items : u.email = name).id ELSE None
    ELSE IF name \in items THEN IdOf(name) ELSE None

\* get_client_id(client_name, workspace, null_ok), get_project_id,
\* get_tag_id, get_usergroup_id and get_userid_by_email after their read of
\* the cached list: the id of the match; without a match None for a user
\* and for a client with null_ok, RuntimeError otherwise
resolve_id(k, name, null_ok, read) ==
    IF read.kind = "raise" THEN Raise(read.exc)
    ELSE IF first_id(k, name, read.val) # None
    THEN Ret(first_id(k, name, read.val))
    ELSE IF k = "users" \/ (k = "clients" /\ null_ok) THEN Ret(None)
    ELSE Raise("RuntimeError")

\* one lookup of an id by name; only get_client_id takes null_ok
ResolveId(k, name, null_ok) ==
    /\ null_ok => k = "clients"
    /\ name \in LookupNames(k)
    /\ LET step(read, r) ==
               /\ need_resync' = [need_resync EXCEPT ![k] = read.flag]
               /\ data' = [data EXCEPT ![k] = read.data]
               /\ n_requests' = n_requests + read.fetches
               /\ cache_op' = [op |-> "resolve", k |-> k, name |-> name,
                               kind |-> r.kind, exc |-> r.exc,
                               retval |-> IF r.kind = "return" THEN r.val
                                          ELSE None,
                               val |-> read.val, fetches |-> read.fetches,
                               flag0 |-> need_resync[k], null_ok |-> null_ok]
           call(read) == step(read, resolve_id(k, name, null_ok, read))
       IN  call(get_entities(k, "ws", need_resync[k], data[k], listing(k)))
    /\ UNCHANGED <<time_per_request, gw, t_entities, t_users, created, mg,
                   user_vars, entry_vars, rest_vars>>

CacheNext ==
    \/ \E k \in CreateKinds, name \in Names, status \in {201, 400, 429, 500} :
        AddEntity(k, name, status)
    \/ \E k \in Kinds, workspace \in Workspaces \cup {"nows"} :
        GetEntities(k, workspace)
    \/ \E k \in Kinds, name \in Names \cup {"admin@co", "alice@co"},
          null_ok \in BOOLEAN :
        ResolveId(k, name, null_ok)

----------------------------------------------------------------------------
\* The paginated fetch

\* "page-size": 50, and the test len(data) < 50
page_size == 50

\* the page a server returns for page number p, as the list of the items' ids:
\* a server that holds the items 1..n and serves them in consecutive pages,
\* and a server that returns the same full page whatever the page number
server_page(server, n, p) ==
    IF server = "stuck"
    THEN [i \in 1..page_size |-> i]
    ELSE LET from == (p - 1) * page_size
             len == IF n - from >= page_size THEN page_size
                    ELSE IF n - from > 0 THEN n - from ELSE 0
         IN  [i \in 1..len |-> from + i]

\* the repeated-first-id guard left out: a new page always counts as new data
first_id_seen_never(page_data, retval_data) == FALSE

\* any(d[id_key] == check_id for d in retval_data), check_id = data[0][id_key]
first_id_seen(page_data, retval_data) ==
    \E i \in DOMAIN retval_data : retval_data[i] = page_data[1]

\* a test that takes a full page for the last one: len(data) <= 50
short_page_or_full(page_data) == Len(page_data) <= page_size

\* len(data) < 50
short_page(page_data) == Len(page_data) < page_size

NoFetch == [pc |-> "idle", server |-> None, n |-> 0, page |-> 0,
            retval_data |-> <<>>, served |-> 0, throttled |-> 0,
            exc |-> None]

\* multi_get_request(url, email) is called: api_token, page = 1, retval_data = []
MultiGetCall(server, n, email) ==
    /\ mg.pc = "idle"
    /\ LET key == get_api_key(PyStr(email))
       IN  mg' = IF key.kind = "raise"
                 THEN [NoFetch EXCEPT !.pc = "raised", !.exc = key.exc,
                                      !.server = server, !.n = n]
                 ELSE [NoFetch EXCEPT !.pc = "loop", !.server = server,
                                      !.n = n, !.page = 1]
    /\ UNCHANGED <<gw_vars, cache_vars, user_vars, entry_vars, rest_vars>>

\* one iteration of the while loop: the request of page mg.page is answered 200
MultiGetPage ==
    /\ mg.pc = "loop"
    /\ LET page_data == server_page(mg.server, mg.n, mg.page)
           got == [mg EXCEPT !.served = @ + 1]
       IN  mg' = IF short_page(page_data)
                 THEN [got EXCEPT !.retval_data = @ \o page_data,
                                  !.pc = "returned"]
                 ELSE IF ~first_id_seen(page_data, mg.retval_data)
                 THEN [got EXCEPT !.retval_data = @ \o page_data,
                                  !.page = @ + 1]
                 ELSE [got EXCEPT !.pc = "returned"]
    /\ n_requests' = n_requests + 1
    /\ UNCHANGED <<time_per_request, gw, cache_vars, user_vars, entry_vars, rest_vars>>

\* a 429 branch that goes on to the next page
on_throttled_next_page(fetch) ==
    [fetch EXCEPT !.throttled = @ + 1, !.page = @ + 1]

\* the branch for status 429: page and retval_data stay as they are, the
\* loop goes round again
on_throttled(fetch) == [fetch EXCEPT !.throttled = @ + 1]

\* one iteration of the while loop: the request is answered 429
MultiGetThrottled ==
    /\ mg.pc = "loop"
    /\ mg.throttled < MaxThrottles
    /\ mg' = on_throttled(mg)
    /\ time_per_request' = backoff(time_per_request)
    /\ n_requests' = n_requests + 1
    /\ UNCHANGED <<gw, cache_vars, user_vars, entry_vars, rest_vars>>

\* one iteration of the while loop: any other status raises RuntimeError
MultiGetFailed ==
    /\ mg.pc = "loop"
    /\ mg' = [mg EXCEPT !.pc = "raised", !.exc = "RuntimeError"]
    /\ n_requests' = n_requests + 1
    /\ UNCHANGED <<time_per_request, gw, cache_vars, user_vars, entry_vars, rest_vars>>

PagingNext ==
    \/ \E n \in 0..MaxItems, email \in Emails :
        MultiGetCall("consecutive", n, email)
    \/ \E email \in Emails : MultiGetCall("stuck", page_size, email)
    \/ MultiGetPage
    \/ MultiGetThrottled
    \/ MultiGetFailed

----------------------------------------------------------------------------
\* User identity reconciliation

\* the users of the Source workspace: uid, email and display name
SourceUsers ==
    { [id |-> 7, email |-> "alice@co", fullname |-> "alice"],
      [id |-> 8, email |-> "bob@old", fullname |-> "admin"] }

\* the (uid, user) pairs of the report rows
RowUsers ==
    { [uid |-> 7, user |-> "alice"], [uid |-> 8, user |-> "admin"],
      [uid |-> 9, user |-> "carol"] }

\* TogglAPI.get_user_email(user_id, workspace_name): get_users raises
\* RuntimeError when the list must be loaded and the request fails
toggl_get_user_email(uid, resync, request_ok) ==
    IF resync /\ ~request_ok
    THEN [kind |-> "raise", exc |-> "RuntimeError", val |-> None]
    ELSE LET m == {u \in SourceUsers : u.id = uid}
         IN  [kind |-> "return", exc |-> None,
              val |-> IF m = {} THEN None ELSE (CHOOSE u \in m : TRUE).email]

\* first(users, lambda x: x[key] == value), then [field]; None without a match
first_user_field(users, key, value, field) ==
    LET m == {u \in users : u[key] = value}
    IN  IF m = {} THEN None ELSE (CHOOSE u \in m : TRUE)[field]

\* get_userid_by_email / get_userid_from_name / get_email_by_id: a read of the
\* cached users, then the lookup of field by key; c is the cache [flag, data]
user_lookup(key, value, field, workspace, c) ==
    LET r == get_entities("users", workspace, c.flag, c.data, t_users)
    IN  IF r.kind = "raise"
        THEN [kind |-> "raise", exc |-> r.exc, val |-> None,
              c |-> [flag |-> r.flag, data |-> r.data]]
        ELSE [kind |-> "return", exc |-> None,
              val |-> first_user_field(r.val, key, value, field),
              c |-> [flag |-> r.flag, data |-> r.data]]

\* the inner except RuntimeError of verify_email
verify_email_no_match(skip, fallback, c) ==
    IF skip THEN [kind |-> "return", exc |-> None, val |-> None, c |-> c]
    ELSE IF fallback # None
    THEN [kind |-> "return", exc |-> None, val |-> fallback, c |-> c]
    ELSE [kind |-> "raise", exc |-> "RuntimeError", val |-> None, c |-> c]

\* the outer except RuntimeError of verify_email: match by user name
verify_email_by_name(username, workspace, skip, fallback, c) ==
    LET byname == user_lookup("name", username, "id", workspace, c)
    IN  IF byname.kind = "raise"
        THEN IF byname.exc = "RuntimeError"
             THEN verify_email_no_match(skip, fallback, byname.c)
             ELSE byname
        ELSE LET byid == user_lookup("id", byname.val, "email", workspace,
                                     byname.c)
             IN  IF byid.kind = "raise" /\ byid.exc = "RuntimeError"
                 THEN verify_email_no_match(skip, fallback, byid.c)
                 ELSE byid

\* Clue.verify_email(toggl_uid, toggl_username, description): src is the
\* result of toggl.get_user_email
verify_email(src, username, workspace, skip, fallback, c) ==
    IF src.kind = "raise"
    THEN IF src.exc = "RuntimeError"
         THEN verify_email_by_name(username, workspace, skip, fallback, c)
         ELSE [kind |-> "raise", exc |-> src.exc, val |-> None, c |-> c]
    ELSE LET bymail == user_lookup("email", src.val, "id", workspace, c)
         IN  IF bymail.kind = "raise"
             THEN IF bymail.exc = "RuntimeError"
                  THEN verify_email_by_name(username, workspace, skip,
                                            fallback, bymail.c)
                  ELSE bymail
             ELSE [kind |-> "return", exc |-> None, val |-> src.val,
                   c |-> bymail.c]

NoVerify == [uid |-> 0, user |-> None, srckind |-> None, src |-> None,
             kind |-> None, exc |-> None, val |-> None]

\* one call of verify_email for the user of a report row
VerifyEmail(row, toggl_ok) ==
    LET src == toggl_get_user_email(row.uid, toggl_resync_users, toggl_ok)
        r == verify_email(src, row.user, cfg.workspace, cfg.skip, cfg.fallback,
                          [flag |-> need_resync["users"], data |-> data["users"]])
    IN  /\ toggl_resync_users' = (toggl_resync_users /\ src.kind = "raise")
        /\ need_resync' = [need_resync EXCEPT !["users"] = r.c.flag]
        /\ data' = [data EXCEPT !["users"] = r.c.data]
        /\ ve' = [uid |-> row.uid, user |-> row.user, srckind |-> src.kind,
                  src |-> src.val, kind |-> r.kind, exc |-> r.exc,
                  val |-> r.val]
        /\ UNCHANGED <<gw_vars, t_entities, t_users, created, cache_op, mg, cfg,
                       entry_vars, rest_vars>>

UserNext ==
    \E row \in RowUsers, toggl_ok \in BOOLEAN : VerifyEmail(row, toggl_ok)

----------------------------------------------------------------------------
\* Calls of the gateway by any caller

\* one call of ClockifyAPI.request by a caller
GatewayCall(typ, url, email, body, statuses) ==
    /\ n_requests < MaxCalls
    /\ LET r == request(url, PyStr(email), body, typ, statuses, time_per_request)
       IN  /\ time_per_request' = r.tpr
           /\ n_requests' = n_requests + Len(r.sent)
           /\ gw' = [typ |-> typ, url |-> url, email |-> email, body |-> body,
                     statuses |-> statuses, kind |-> r.kind, exc |-> r.exc,
                     status |-> r.status, sent |-> r.sent,
                     tpr0 |-> time_per_request]
           /\ UNCHANGED <<cache_vars, mg, user_vars, entry_vars, rest_vars>>

GatewayNext ==
    \E typ \in HttpMethods, url \in Urls, email \in Emails, body \in Bodies,
       s1 \in Statuses :
        GatewayCall(typ, url, email, body, <<s1, 200>>)

----------------------------------------------------------------------------
\* The entry model and the duplicate detector

\* time_to_utc(time): a timestamp with a UTC offset, as a naive UTC datetime
time_to_utc(time) == time.local - time.offset

\* parse_end(t_entry)
parse_end(t_entry) ==
    IF t_entry.end = NoneOf THEN NoneOf
    ELSE Some(time_to_utc(t_entry.end[1]))

\* datetime.isoformat() + timezone: the string sent to and returned by Target
isoformat_tz(dt, timezone) == [iso |-> dt, tz |-> timezone]

\* Entry(t_entry), then the email, workspace and timezone that on_new_reports
\* sets
Entry(t_entry, email, workspace) ==
    [start |-> time_to_utc(t_entry.start),
     utc_start |-> time_to_utc(t_entry.start),
     end |-> parse_end(t_entry),
     description |-> t_entry.description,
     project_name |-> t_entry.project,
     client_name |-> t_entry.client,
     billable |-> t_entry.is_billable,
     tag_names |-> t_entry.tags,
     task_name |-> t_entry.task,
     email |-> email,
     workspace |-> workspace,
     timezone |-> "Z",
     proj_id |-> None, workspace_id |-> None, task_id |-> None,
     tag_ids |-> NoneOf, user_id |-> None]

\* get_user_id(email)
get_user_id(email) ==
    LET i == first_api_user(PyStr(email))
    IN  IF i = 0 THEN Raise("AttributeError")
        ELSE Ret(api_users[i].clockify_id)

\* match_client(project_data, client_name); the projects of the model have
\* no client, their clientName is ""
match_client(client_name) ==
    (IF client_name = None THEN "" ELSE client_name) = ""

\* need_resync and data of the cached lists after the read r of list k
after_read(k, flags, datas, r) ==
    [flags |-> [flags EXCEPT ![k] = r.flag],
     datas |-> [datas EXCEPT ![k] = r.data]]

\* get_project_id(proj_name, client, workspace); flags and datas are
\* need_resync and data of the cached lists, returned as the call leaves them
get_project_id(proj_name, client, workspace, flags, datas) ==
    LET find(projects) ==
            (IF projects.kind = "raise" THEN Raise(projects.exc)
             ELSE IF proj_name \in projects.val /\ match_client(client)
             THEN Ret(IdOf(proj_name))
             ELSE Raise("RuntimeError"))
            @@ after_read("projects", flags, datas, projects)
    IN  find(get_entities("projects", workspace, flags["projects"],
                          datas["projects"], t_entities["projects"]))

\* the tasks Target holds for every project
TargetTasks == {"task1"}

\* get_task_id_from_name(task_name, project_tasks)
get_task_id_from_name(task_name, project_tasks) ==
    IF task_name \in project_tasks THEN Ret(IdOf(task_name))
    ELSE Raise("RuntimeError")

\* the loop over tag_names with get_tag_id(tag, workspace): the first call
\* reads the cached tags, a name not among them raises RuntimeError
get_tag_ids(tag_names, workspace, flags, datas) ==
    LET find(tags) ==
            (IF tags.kind = "raise" THEN Raise(tags.exc)
             ELSE IF \E i \in DOMAIN tag_names : tag_names[i] \notin tags.val
             THEN Raise("RuntimeError")
             ELSE Ret([i \in DOMAIN tag_names |-> IdOf(tag_names[i])]))
            @@ after_read("tags", flags, datas, tags)
    IN  IF tag_names = <<>>
        THEN Ret(<<>>) @@ [flags |-> flags, datas |-> datas]
        ELSE find(get_entities("tags", workspace, flags["tags"],
                               datas["tags"], t_entities["tags"]))

\* Entry.process_ids(api): the call's result, with the entry and the cached
\* lists as it leaves them (c carries flags and datas)
process_ids(e, flags, datas) ==
    LET fail(exc, ent, c) ==
            Raise(exc) @@ [flags |-> c.flags, datas |-> c.datas, e |-> ent]
        done(ent, c) ==
            Ret(None) @@ [flags |-> c.flags, datas |-> c.datas, e |-> ent]
        \* if self.tag_names is not None: ...
        tag_step(ent, c) ==
            LET got(tags) ==
                    IF tags.kind = "raise" THEN fail(tags.exc, ent, tags)
                    ELSE done([ent EXCEPT !.tag_ids = Some(tags.val)], tags)
            IN  IF ent.tag_names = NoneOf THEN done(ent, c)
                ELSE got(get_tag_ids(ent.tag_names[1], ent.workspace,
                                     c.flags, c.datas))
        \* self.start = ...; if self.end is not None: self.end = ...
        time_step(ent, c) ==
            tag_step([ent EXCEPT
                        !.start = isoformat_tz(ent.start, ent.timezone),
                        !.end = IF ent.end = NoneOf THEN NoneOf
                                ELSE Some(isoformat_tz(ent.end[1],
                                                       ent.timezone))], c)
        \* if self.task_name is not None: ...
        task_step(ent, c) ==
            LET got(task) ==
                    IF task.kind = "raise" THEN fail(task.exc, ent, c)
                    ELSE time_step([ent EXCEPT !.task_id = task.val], c)
            IN  IF ent.task_name = None THEN time_step(ent, c)
                ELSE got(get_task_id_from_name(ent.task_name, TargetTasks))
        \* if self.project_name is not None: ...
        proj_step(ent, c) ==
            LET got(proj) ==
                    IF proj.kind = "raise" THEN fail(proj.exc, ent, proj)
                    ELSE task_step([ent EXCEPT !.proj_id = proj.val], proj)
            IN  IF ent.project_name = None THEN time_step(ent, c)
                ELSE got(get_project_id(ent.project_name, ent.client_name,
                                        ent.workspace, c.flags, c.datas))
        c0 == [flags |-> flags, datas |-> datas]
        ws == get_workspace_id(e.workspace)
        uid == get_user_id(e.email)
    IN  IF ws.kind = "raise" THEN fail(ws.exc, e, c0)
        ELSE IF uid.kind = "raise"
        THEN fail(uid.exc, [e EXCEPT !.workspace_id = ws.val], c0)
        ELSE proj_step([e EXCEPT !.workspace_id = ws.val,
                                 !.user_id = uid.val], c0)

\* a to_api_dict whose default of end is the start without its timezone
to_api_dict_end_no_tz(e) ==
    [start |-> e.start, billable |-> e.billable,
     description |-> e.description,
     end |-> IF e.end # NoneOf THEN e.end[1] ELSE isoformat_tz(e.utc_start, "")]
    @@ (IF e.proj_id # None THEN [projectId |-> e.proj_id] ELSE <<>>)
    @@ (IF e.task_id # None THEN [taskId |-> e.task_id] ELSE <<>>)
    @@ (IF e.tag_ids # NoneOf THEN [tagIds |-> e.tag_ids[1]] ELSE <<>>)

\* a to_api_dict that always sets tagIds: an entry without tags gets []
to_api_dict_tags_always(e) ==
    [start |-> e.start, billable |-> e.billable,
     description |-> e.description,
     end |-> IF e.end # NoneOf THEN e.end[1] ELSE e.start,
     tagIds |-> IF e.tag_ids # NoneOf THEN e.tag_ids[1] ELSE <<>>]
    @@ (IF e.proj_id # None THEN [projectId |-> e.proj_id] ELSE <<>>)
    @@ (IF e.task_id # None THEN [taskId |-> e.task_id] ELSE <<>>)

\* Entry.to_api_dict() of an entry whose ids were processed
to_api_dict(e) ==
    [start |-> e.start, billable |-> e.billable,
     description |-> e.description,
     end |-> IF e.end # NoneOf THEN e.end[1] ELSE e.start]
    @@ (IF e.proj_id # None THEN [projectId |-> e.proj_id] ELSE <<>>)
    @@ (IF e.task_id # None THEN [taskId |-> e.task_id] ELSE <<>>)
    @@ (IF e.tag_ids # NoneOf THEN [tagIds |-> e.tag_ids[1]] ELSE <<>>)

Range(s) == {s[i] : i \in DOMAIN s}

\* a diff that tests the project on the side of the candidate: different
\* when the candidate has a project id and it is not the entry's
diff_entry_candidate_project(e, other) ==
    LET tags_of(this) ==
            IF "tagIds" \in DOMAIN this THEN this["tagIds"] ELSE <<>>
        other_tag_ids == IF other.tagIds = NoneOf THEN <<>>
                         ELSE other.tagIds[1]
        diff(this) ==
            IF this["start"] # other.timeInterval.start THEN Ret(TRUE)
            ELSE IF other.projectId # None /\ other.projectId # e.proj_id
            THEN Ret(TRUE)
            ELSE IF this["description"] # other.description THEN Ret(TRUE)
            ELSE IF "userId" \notin DOMAIN this THEN Raise("KeyError")
            ELSE IF this["userId"] # other.userId THEN Ret(TRUE)
            ELSE Ret(Range(tags_of(this)) # Range(other_tag_ids))
    IN  diff(to_api_dict(e))

\* Entry.diff_entry(other); other is an entry as Target returns it
diff_entry(e, other) ==
    LET tags_of(this) ==
            IF "tagIds" \in DOMAIN this THEN this["tagIds"] ELSE <<>>
        other_tag_ids == IF other.tagIds = NoneOf THEN <<>>
                         ELSE other.tagIds[1]
        diff(this) ==
            IF this["start"] # other.timeInterval.start THEN Ret(TRUE)
            ELSE IF "projectId" \in DOMAIN this
                    /\ this["projectId"] # other.projectId
            THEN Ret(TRUE)
            ELSE IF this["description"] # other.description THEN Ret(TRUE)
            ELSE IF "userId" \notin DOMAIN this THEN Raise("KeyError")
            ELSE IF this["userId"] # other.userId THEN Ret(TRUE)
            ELSE Ret(Range(tags_of(this)) # Range(other_tag_ids))
    IN  diff(to_api_dict(e))

RECURSIVE is_duplicate_entry(_, _)

\* is_duplicate_entry(source, entries)
is_duplicate_entry(source, entries) ==
    LET next(different) ==
            IF different.kind = "raise" THEN different
            ELSE IF ~different.val THEN Ret(TRUE)
            ELSE is_duplicate_entry(source, Tail(entries))
    IN  IF entries = <<>> THEN Ret(FALSE)
        ELSE next(diff_entry(source, Head(entries)))

\* EntryQuery(entry).to_api_dict(api), with the cached lists as it leaves
\* them
query_to_api_dict(e, flags, datas) ==
    LET params == [description |-> e.description,
                   start |-> isoformat_tz(e.utc_start, e.timezone)]
        with(proj) ==
            IF proj.kind = "raise" THEN proj
            ELSE [proj EXCEPT !.val = params @@ [project |-> proj.val]]
    IN  IF e.project_name = None
        THEN Ret(params) @@ [flags |-> flags, datas |-> datas]
        ELSE with(get_project_id(e.project_name, e.client_name, e.workspace,
                                 flags, datas))

----------------------------------------------------------------------------
\* Target's time entries

\* the entry Target stores and returns for a create request with this body,
\* sent with the token of user_id
target_create(body, user_id, id) ==
    [id |-> id,
     timeInterval |-> [start |-> body["start"], end |-> body["end"]],
     projectId |-> IF "projectId" \in DOMAIN body THEN body["projectId"]
                   ELSE None,
     description |-> body["description"],
     userId |-> user_id,
     tagIds |-> IF "tagIds" \in DOMAIN body THEN Some(body["tagIds"])
                ELSE NoneOf]

\* the entries Target returns for the query of a user's time entries: those
\* of the description, started at or after start, of the project if given
target_query(entries, user_id, params) ==
    LET hit(c) == /\ c.userId = user_id
                  /\ c.description = params["description"]
                  /\ c.timeInterval.start.iso >= params["start"].iso
                  /\ "project" \in DOMAIN params
                        => c.projectId = params["project"]
    IN  SelectSeq(entries, hit)

----------------------------------------------------------------------------
\* The entries phase: sync_entries, on_new_reports and the worker threads

\* one task of the thread pool: _add_entry_threaded(entry, status_indicator)
NewTask(e) ==
    [pc |-> "queued", e |-> e, got |-> 0, cands |-> <<>>, out |-> None,
     payload |-> NoneOf, exc |-> None, posts |-> <<>>, posted |-> 0,
     seen |-> 0, sent |-> <<>>]

NoBatch == [state |-> "idle", status_indicator |-> <<0, 0>>,
            results |-> <<>>, exc |-> None]

\* sync_entries(workspace, since) has reset the counters; get_reports is
\* about to deliver the first page
NewSync(run, made) ==
    [run |-> run, page |-> 1, state |-> "running", exc |-> None,
     num_ok |-> 0, num_skip |-> 0, num_err |-> 0, num_entries |-> 0,
     made |-> made]

\* the loop of on_new_reports without its continue: every row is queued
kept_rows_all(entries) == entries

\* the rows on_new_reports queues: those for which verify_email gave an email
\* (if email is None: self._num_skip += 1; continue)
kept_rows(entries) == SelectSeq(entries, LAMBDA t : t.verified # None)

\* on_new_reports(entries, total_count) up to the call of starmap: every row
\* is queued with the email verify_email gave for its user (the field
\* verified of the row; VerifyEmail models the call itself), a row without
\* one is counted as skipped
OnNewReports ==
    /\ sync.state = "running"
    /\ batch.state \in {"idle", "returned"}
    /\ sync.page <= Len(reports)
    /\ LET entries == reports[sync.page]
           kept == kept_rows(entries)
           entry_tasks == [i \in DOMAIN kept |->
                             Entry(kept[i], kept[i].verified, cfg.workspace)]
       IN  /\ sync' = [sync EXCEPT
                         !.num_skip = @ + (Len(entries) - Len(kept))]
           /\ batch' = [state |-> "running",
                        status_indicator |-> <<0, Len(entry_tasks)>>,
                        results |-> <<>>, exc |-> None]
           /\ w' = [i \in DOMAIN entry_tasks |-> NewTask(entry_tasks[i])]
    /\ UNCHANGED <<gw_vars, cache_vars, mg, user_vars, t_entries, reports, rest_vars>>

\* add_entry returns (retval, payload) to _add_entry_threaded, which loads
\* status_indicator[0] for its increment
returned(task, retval, payload) ==
    [task EXCEPT !.pc = "counting", !.out = retval, !.payload = payload,
                 !.seen = batch.status_indicator[1]]

raised(task, exc) == [task EXCEPT !.pc = "raised", !.exc = exc]

\* add_entry, first part: entry.process_ids(self), entry.to_api_dict(),
\* EntryQuery(entry)
Resolve(i) ==
    /\ batch.state = "running"
    /\ i \in DOMAIN w
    /\ w[i].pc = "queued"
    /\ LET step(r) ==
               /\ need_resync' = r.flags
               /\ data' = r.datas
               /\ n_requests' = n_requests
                     + Cardinality({k \in Kinds :
                                      need_resync[k] /\ ~r.flags[k]})
               /\ w' = [w EXCEPT ![i] =
                          IF r.kind = "raise"
                          THEN raised([@ EXCEPT !.e = r.e], r.exc)
                          ELSE [@ EXCEPT !.e = r.e, !.pc = "resolved"]]
       IN  step(process_ids(w[i].e, need_resync, data))
    /\ UNCHANGED <<time_per_request, gw, t_entities, t_users, created,
                   cache_op, mg, user_vars, t_entries, batch, sync, reports, rest_vars>>

\* add_entry, second part: get_time_entries(query), answered with status,
\* and is_duplicate_entry(entry, web_entries)
Query(i, status) ==
    /\ batch.state = "running"
    /\ i \in DOMAIN w
    /\ w[i].pc = "resolved"
    /\ LET e == w[i].e
           \* if is_duplicate_entry(entry, web_entries): ...
           check(task, dup) ==
               IF dup.kind = "raise" THEN raised(task, dup.exc)
               ELSE IF dup.val THEN returned(task, "EXISTS", NoneOf)
               ELSE [task EXCEPT !.pc = "checked"]
           \* retval.ok: data = retval.json()
           found(task, web_entries) ==
               check([task EXCEPT !.cands = web_entries],
                     is_duplicate_entry(e, web_entries))
           answer(params, r) ==
               /\ time_per_request' = r.tpr
               /\ n_requests' = n_requests + Len(r.sent)
               /\ w' = [w EXCEPT ![i] =
                          IF r.kind = "raise"
                          THEN raised([@ EXCEPT !.got = r.status, !.sent = @ \o r.sent], r.exc)
                          ELSE IF ~Ok(r.status)
                          THEN returned([@ EXCEPT !.got = r.status, !.sent = @ \o r.sent], "ERR",
                                        NoneOf)
                          ELSE found([@ EXCEPT !.got = r.status, !.sent = @ \o r.sent],
                                     target_query(t_entries, e.user_id,
                                                  params))]
           ask(ws, params) ==
               IF ws.kind = "raise" \/ params.kind = "raise"
               THEN /\ w' = [w EXCEPT ![i] =
                               raised(@, IF ws.kind = "raise" THEN ws.exc
                                         ELSE params.exc)]
                    /\ UNCHANGED <<time_per_request, n_requests>>
               ELSE answer(params.val,
                           request("/workspaces/ws/user/time-entries",
                                   PyStr(e.email), PyDict(params.val), "GET",
                                   <<status, 200>>, time_per_request))
       IN  ask(get_workspace_id(e.workspace),
               query_to_api_dict(e, need_resync, data))
    /\ UNCHANGED <<gw, cache_vars, mg, user_vars, t_entries, batch, sync,
                   reports, rest_vars>>

\* add_entry, third part: the create request, answered with status
Submit(i, status) ==
    /\ batch.state = "running"
    /\ i \in DOMAIN w
    /\ w[i].pc = "checked"
    /\ LET e == w[i].e
           answer(api_dict, r, new) ==
               /\ time_per_request' = r.tpr
               /\ n_requests' = n_requests + Len(r.sent)
               /\ t_entries' = IF r.kind = "return" /\ Ok(r.status)
                                THEN Append(t_entries, new) ELSE t_entries
               /\ w' = [w EXCEPT ![i] =
                          IF r.kind = "raise"
                          THEN raised([@ EXCEPT !.posts = Append(@, api_dict),
                                                !.posted = r.status,
                                                !.sent = @ \o r.sent], r.exc)
                          ELSE IF ~Ok(r.status)
                          THEN returned([@ EXCEPT
                                           !.posts = Append(@, api_dict),
                                           !.posted = r.status,
                                           !.sent = @ \o r.sent], "ERR", NoneOf)
                          ELSE returned([@ EXCEPT
                                           !.posts = Append(@, api_dict),
                                           !.posted = r.status,
                                           !.sent = @ \o r.sent], "OK",
                                        Some(new))]
               /\ sync' = IF r.kind = "return" /\ Ok(r.status)
                             /\ sync.run = 1
                          THEN [sync EXCEPT
                                  !.made = @ \cup {<<sync.page, i>>}]
                          ELSE sync
           post(api_dict) ==
               answer(api_dict,
                      request("/workspaces/ws/time-entries", PyStr(e.email),
                              PyDict(api_dict), "POST", <<status, 200>>,
                              time_per_request),
                      target_create(api_dict, e.user_id, Len(t_entries) + 1))
       IN  post(to_api_dict(e))
    /\ UNCHANGED <<gw, cache_vars, mg, user_vars, batch, reports, rest_vars>>

\* _add_entry_threaded: the store of status_indicator[0] += 1, then the
\* return of the result
Count(i) ==
    /\ batch.state = "running"
    /\ i \in DOMAIN w
    /\ w[i].pc = "counting"
    /\ batch' = [batch EXCEPT !.status_indicator[1] = w[i].seen + 1]
    /\ w' = [w EXCEPT ![i].pc = "done"]
    /\ UNCHANGED <<gw_vars, cache_vars, mg, user_vars, t_entries, sync,
                   reports, rest_vars>>

\* the results in the order in which the tasks were given, reversed
results_reversed(tasks) ==
    [i \in DOMAIN tasks |-> <<tasks[Len(tasks) + 1 - i].out,
                              tasks[Len(tasks) + 1 - i].payload>>]

\* what starmap returns: the result of every task, in the order of the tasks
starmap_results(tasks) ==
    [i \in DOMAIN tasks |-> <<tasks[i].out, tasks[i].payload>>]

\* a loop over the results that counts an EXISTS as an error
count_results_exists_as_err(s, results, entries) ==
    LET n(retvals) == Cardinality({i \in DOMAIN results :
                                    results[i][1] \in retvals})
    IN  [s EXCEPT !.num_err = @ + n({"ERR", "EXISTS"}),
                  !.num_ok = @ + n({"OK"}),
                  !.num_entries = @ + Len(entries)]

\* the loop over the results without its first branch: an ERR counts as ok
count_results_no_err(s, results, entries) ==
    LET n(retvals) == Cardinality({i \in DOMAIN results :
                                    results[i][1] \in retvals})
    IN  [s EXCEPT !.num_skip = @ + n({"EXISTS"}),
                  !.num_ok = @ + n({"OK", "ERR"}),
                  !.num_entries = @ + Len(entries)]

\* on_new_reports after starmap returned: the loop over the results and
\* _num_entries += len(entries)
count_results(s, results, entries) ==
    LET n(retvals) == Cardinality({i \in DOMAIN results :
                                    results[i][1] \in retvals})
    IN  [s EXCEPT !.num_err = @ + n({"ERR"}),
                  !.num_skip = @ + n({"EXISTS"}),
                  !.num_ok = @ + n({"OK"}),
                  !.num_entries = @ + Len(entries)]

\* a starmap that does not wait for its tasks
all_returned_at_once(tasks) == TRUE

\* pool.starmap blocks until every task given to it has returned
all_returned(tasks) == \A i \in DOMAIN tasks : tasks[i].pc = "done"

\* starmap returns once all tasks are over and none raised; on_new_reports
\* counts the results and get_reports goes on to the next page, or returns
\* after the last one
AddEntriesReturn ==
    /\ batch.state = "running"
    /\ all_returned(w)
    /\ batch' = [batch EXCEPT !.state = "returned",
                              !.results = starmap_results(w)]
    /\ sync' = [count_results(sync, starmap_results(w), reports[sync.page])
                  EXCEPT !.page = @ + 1,
                         !.state = IF sync.page = Len(reports)
                                   THEN "finished" ELSE "running"]
    /\ UNCHANGED <<gw_vars, cache_vars, mg, user_vars, t_entries, w, reports, rest_vars>>

\* starmap raises the exception of a task that raised, once all tasks are
\* over; nothing up to the caller of sync_entries handles it
AddEntriesRaise ==
    /\ batch.state = "running"
    /\ \A i \in DOMAIN w : w[i].pc \in {"done", "raised"}
    /\ \E i \in DOMAIN w :
        /\ w[i].pc = "raised"
        /\ batch' = [batch EXCEPT !.state = "raised", !.exc = w[i].exc]
        /\ sync' = [sync EXCEPT !.state = "aborted", !.exc = w[i].exc]
    /\ UNCHANGED <<gw_vars, cache_vars, mg, user_vars, t_entries, w, reports, rest_vars>>

\* the program is run again over the same reports: the API objects are
\* constructed anew and sync_entries resets the counters
SyncEntriesAgain ==
    /\ sync.state \in {"finished", "aborted"}
    /\ sync.run = 1
    /\ sync' = NewSync(2, sync.made)
    /\ batch' = NoBatch
    /\ w' = <<>>
    /\ time_per_request' = TimePerRequest0
    /\ need_resync' = [k \in Kinds |-> TRUE]
    /\ data' = [k \in Kinds |-> {}]
    /\ UNCHANGED <<n_requests, gw, t_entities, t_users, created, cache_op, mg,
                   user_vars, t_entries, reports, rest_vars>>

Next ==
    \/ OnNewReports
    \/ \E i \in 1..MaxBatch : Resolve(i)
    \/ \E i \in 1..MaxBatch, status \in {200, 429, 500} : Query(i, status)
    \/ \E i \in 1..MaxBatch, status \in {201, 429, 500} : Submit(i, status)
    \/ \E i \in 1..MaxBatch : Count(i)
    \/ AddEntriesReturn
    \/ AddEntriesRaise
    \/ SyncEntriesAgain

----------------------------------------------------------------------------
\* The reports of Source


\* a row of a detailed report; start and end carry the UTC offset of the
\* Source user's timezone
Row(local, end, project, tags, verified) ==
    [description |-> "d1",
     start |-> [local |-> local, offset |-> 1],
     end |-> end, project |-> project, client |-> None,
     is_billable |-> FALSE, tags |-> tags, task |-> None,
     verified |-> verified]

RowPool ==
    { Row(11, Some([local |-> 12, offset |-> 1]), None, NoneOf, "alice@co"),
      Row(11, Some([local |-> 12, offset |-> 1]), None, Some(<<>>), "alice@co"),
      Row(31, NoneOf, None, Some(<<>>), "alice@co"),
      Row(11, NoneOf, "Acme", Some(<<>>), "alice@co"),
      Row(11, NoneOf, None, Some(<<"t1">>), "admin@co"),
      Row(31, NoneOf, None, NoneOf, "admin@co"),
      Row(11, NoneOf, None, Some(<<>>), "bob@co"),
      Row(11, NoneOf, None, Some(<<>>), None) }

SeqsUpTo(S, n) == UNION {[1..m -> S] : m \in 1..n}

\* the pages get_reports delivers: one page of up to MaxBatch rows, or up to
\* MaxPages pages of one row
Reports ==
    {<<p>> : p \in SeqsUpTo(RowPool, MaxBatch)}
        \cup SeqsUpTo({<<t>> : t \in RowPool}, MaxPages)

\* an entry Target holds before the first run
OldEntry ==
    [id |-> 1,
     timeInterval |-> [start |-> isoformat_tz(10, "Z"),
                       end |-> isoformat_tz(11, "Z")],
     projectId |-> None, description |-> "d1", userId |-> "u_alice",
     tagIds |-> Some(<<IdOf("t1")>>)]

----------------------------------------------------------------------------
\* Calls of Entry.to_api_dict and Entry.diff_entry by any caller

\* entries as process_ids leaves them: workspace, user, project, task and tag
\* ids are set, start and end are strings; a task id is looked up only for an
\* entry with a project
ResolvedEntries ==
    UNION { { [Entry(Row(11, end, project, tags, "alice@co"), "alice@co", "ws")
               EXCEPT
                 !.workspace_id = "ws", !.user_id = "u_alice",
                 !.proj_id = IF project = None THEN None ELSE IdOf(project),
                 !.task_name = task,
                 !.task_id = IF task = None THEN None ELSE IdOf(task),
                 !.start = isoformat_tz(10, "Z"),
                 !.end = IF end = NoneOf THEN NoneOf
                         ELSE Some(isoformat_tz(11, "Z")),
                 !.tag_ids = IF tags = NoneOf THEN NoneOf
                             ELSE Some([i \in DOMAIN tags[1] |->
                                           IdOf(tags[1][i])])] :
                end \in {NoneOf, Some([local |-> 12, offset |-> 1])},
                task \in IF project = None THEN {None} ELSE {None, "task1"},
                tags \in {NoneOf, Some(<<>>), Some(<<"t1">>),
                          Some(<<"t1", "t2">>)} } :
            project \in {None, "Acme"} }

\* the entries Target may return for an entry e: each of start, project,
\* description, user and tags is that of e or another one
CandidatesOf(e) ==
    { [id |-> 1,
       timeInterval |-> [start |-> start, end |-> start],
       projectId |-> project, description |-> description,
       userId |-> user, tagIds |-> tags] :
        start \in {e.start, isoformat_tz(30, "Z")},
        project \in {e.proj_id, None, IdOf("Beta")},
        description \in {e.description, "d2"},
        user \in {e.user_id, "u_admin"},
        tags \in {e.tag_ids, NoneOf, Some(<<>>), Some(<<IdOf("t2")>>),
                  Some(<<IdOf("t2"), IdOf("t1")>>)} }

\* one call of e.diff_entry(other)
ApplyDiffEntry(e, other) ==
    /\ pf.op = None
    /\ LET call(r) ==
               pf' = [op |-> "diff_entry", e |-> Some(e), other |-> Some(other),
                      kind |-> r.kind, exc |-> r.exc,
                      val |-> IF r.kind = "return" THEN Some(r.val)
                              ELSE NoneOf]
       IN  call(diff_entry(e, other))
    /\ UNCHANGED <<gw_vars, cache_vars, mg, user_vars, entry_vars, st, ph, tm, dl>>

\* one call of e.to_api_dict()
ApplyToApiDict(e) ==
    /\ pf.op = None
    /\ pf' = [op |-> "to_api_dict", e |-> Some(e), other |-> NoneOf,
              kind |-> "return", exc |-> None, val |-> Some(to_api_dict(e))]
    /\ UNCHANGED <<gw_vars, cache_vars, mg, user_vars, entry_vars, st, ph, tm, dl>>

\* the results add_entries_threaded may return for a page, with the rows of
\* the page: one result for every row that was queued
ResultsOf ==
    { [results |-> [i \in DOMAIN retvals |-> <<retvals[i], NoneOf>>],
       entries |-> [i \in 1..(Len(retvals) + skipped) |->
                      Row(11, NoneOf, None, NoneOf,
                          IF i > Len(retvals) THEN None ELSE "alice@co")]] :
        retvals \in {<<>>} \cup SeqsUpTo({"OK", "EXISTS", "ERR"}, MaxResults),
        skipped \in {0, 1} }

\* the counters of Clue before the results of a page are counted
CountersBefore ==
    { [NewSync(1, {}) EXCEPT !.num_ok = ok, !.num_skip = skip,
                             !.num_err = err, !.num_entries = ok + skip + err] :
        ok \in {0, 1}, skip \in {0, 1}, err \in {0, 1} }

\* the loop of on_new_reports over the results of add_entries_threaded
ApplyCountResults(s, r) ==
    /\ pf.op = None
    /\ pf' = [op |-> "count_results", e |-> Some(s), other |-> Some(r),
              kind |-> "return", exc |-> None,
              val |-> Some(count_results(s, r.results, r.entries))]
    /\ UNCHANGED <<gw_vars, cache_vars, mg, user_vars, entry_vars, st, ph, tm, dl>>

\* the loop of sync_tags and of sync_groups over the RetVals of their add_*
\* calls: (num, num_ok, num_skips, num_err) as returned; sync_groups has no
\* branch for RetVal.OK
sync_counts(k, retvals) ==
    LET n(S) == Cardinality({i \in DOMAIN retvals : retvals[i] \in S})
    IN  [num |-> Len(retvals),
         num_ok |-> IF k = "usergroups" THEN 0 ELSE n({"OK"}),
         num_skips |-> n({"EXISTS"}),
         num_err |-> IF k = "usergroups" THEN n({"OK", "ERR"})
                     ELSE n({"ERR"})]

\* one call of sync_tags(workspace) or sync_groups(workspace) over a
\* Source list whose add_tag / add_usergroup calls Target answers with
\* statuses
ApplySyncCounts(k, statuses) ==
    /\ pf.op = None
    /\ pf' = [op |-> "sync_counts", e |-> Some(k), other |-> Some(statuses),
              kind |-> "return", exc |-> None,
              val |-> Some(sync_counts(k, [i \in DOMAIN statuses |->
                                              add_retval(k, statuses[i])]))]
    /\ UNCHANGED <<gw_vars, cache_vars, mg, user_vars, entry_vars, st, ph, tm, dl>>

FunctionsNext ==
    \/ \E k \in {"tags", "usergroups"},
          statuses \in {<<>>} \cup SeqsUpTo({201, 400, 500}, MaxBatch) :
          ApplySyncCounts(k, statuses)
    \/ \E e \in ResolvedEntries : \E other \in CandidatesOf(e) :
        ApplyDiffEntry(e, other)
    \/ \E e \in ResolvedEntries : ApplyToApiDict(e)
    \/ \E s \in CountersBefore, r \in ResultsOf : ApplyCountResults(s, r)

----------------------------------------------------------------------------
\* The report streamer: TogglAPI.get_reports and TogglAPI._get_reports

\* days of one date window (datetime.timedelta(days=300))
WindowDays == 300

\* the day sync_entries gives as until, counted from since
Untils == {200, 300, 450, 650}

\* what Source answers to a request of a page of the detailed report
ReportStatuses == {200, 400, 500}
ReportAnswers ==
    { [data |-> <<>>, total_count |-> 2],
      [data |-> <<"r1">>, total_count |-> 2],
      [data |-> <<"r1", "r2">>, total_count |-> 3] }

\* get_reports(workspace_name, (since, until), callback) has been called
NewStream(until) ==
    [pc |-> "window", until |-> until, next_start |-> 0, cur_stop |-> 0,
     end |-> FALSE, page |-> 0, entry_cnt |-> 0, throttles |-> 0,
     wins |-> <<>>, log |-> <<>>, calls |-> <<>>, exc |-> None]

NoStream == [NewStream(0) EXCEPT !.pc = "idle"]

\* get_reports, the head of its loop: the window is at most WindowDays long
\* and is the last one when it would end after until
cur_stop_of(next_start, until) ==
    IF next_start + WindowDays > until THEN until ELSE next_start + WindowDays

end_of(next_start, until) == next_start + WindowDays > until

\* get_reports up to the first request of _get_reports for the window
NextWindow ==
    /\ st.pc = "window"
    /\ st' = [st EXCEPT
                !.cur_stop = cur_stop_of(st.next_start, st.until),
                !.end = end_of(st.next_start, st.until),
                !.page = 1, !.entry_cnt = 0,
                !.wins = Append(@, [since |-> st.next_start,
                                    until |-> cur_stop_of(st.next_start,
                                                          st.until)]),
                !.pc = "request"]
    /\ UNCHANGED <<gw_vars, cache_vars, mg, user_vars, entry_vars, pf, ph, tm, dl>>

\* TogglAPI._request: a 429 is answered by a sleep and the same request again
ReportThrottled ==
    /\ st.pc = "request"
    /\ st.throttles < MaxThrottles
    /\ st' = [st EXCEPT !.throttles = @ + 1]
    /\ UNCHANGED <<gw_vars, cache_vars, mg, user_vars, entry_vars, pf, ph, tm, dl>>

\* a _get_reports that ends the window on a 400 only
window_ends_on_400(status, rows) == status = 400

\* _get_reports leaves its loop on a 400 and on a page without rows
window_ends(status, rows) == status = 400 \/ Len(rows) = 0

\* a get_reports that calls callback(None, 0) after a window that is not the
\* last one
between_windows_marker(calls) ==
    Append(calls, [win |-> 0, page |-> 0, data |-> NoneOf, total |-> 0])

\* get_reports after _get_reports returned, when the window is not the last
\* one: next_start = cur_stop, and no call of callback
between_windows(calls) == calls

\* the window is over: get_reports returns after the last window and goes on
\* to the next one otherwise
window_over(s) ==
    IF s.end
    THEN [s EXCEPT !.pc = "finished"]
    ELSE [s EXCEPT !.pc = "window", !.next_start = s.cur_stop,
                   !.calls = between_windows(s.calls)]

\* one turn of the loop of _get_reports, up to the call of callback: the
\* answer to the request of st.page; an answer of another status than 200 and
\* 400 has no "data", and jsonresp["data"] raises
ReportResponse(status, rows, total) ==
    /\ st.pc = "request"
    /\ Len(rows) > 0 => st.page <= MaxReportPages
    /\ LET logged == [st EXCEPT
                        !.log = Append(@, [win |-> Len(st.wins),
                                           page |-> st.page,
                                           status |-> status,
                                           rows |-> IF status = 200 THEN rows
                                                    ELSE <<>>,
                                           total |-> IF status = 200 THEN total
                                                     ELSE 0])]
       IN  st' =
             IF status = 500
             THEN [logged EXCEPT !.pc = "raised", !.exc = "KeyError"]
             ELSE IF window_ends(status, rows)
             THEN window_over(IF status = 400 THEN logged
                              ELSE [logged EXCEPT !.page = @ + 1])
             ELSE [logged EXCEPT
                     !.page = @ + 1,
                     !.entry_cnt = @ + Len(rows),
                     !.calls = Append(@, [win |-> Len(st.wins),
                                          page |-> st.page,
                                          data |-> Some(rows),
                                          total |-> total]),
                     !.pc = "callback"]
    /\ UNCHANGED <<gw_vars, cache_vars, mg, user_vars, entry_vars, pf, ph, tm, dl>>

\* callback(data, total_cnt) returns and the loop of _get_reports goes on
CallbackReturn ==
    /\ st.pc = "callback"
    /\ st' = [st EXCEPT !.pc = "request"]
    /\ UNCHANGED <<gw_vars, cache_vars, mg, user_vars, entry_vars, pf, ph, tm, dl>>

\* callback(data, total_cnt) raises: neither _get_reports nor get_reports
\* handles an exception
CallbackRaise ==
    /\ st.pc = "callback"
    /\ st' = [st EXCEPT !.pc = "raised", !.exc = "callback"]
    /\ UNCHANGED <<gw_vars, cache_vars, mg, user_vars, entry_vars, pf, ph, tm, dl>>

ReportsNext ==
    \/ NextWindow
    \/ ReportThrottled
    \/ \E status \in ReportStatuses, jsonresp \in ReportAnswers :
          ReportResponse(status, jsonresp.data, jsonresp.total_count)
    \/ CallbackReturn
    \/ CallbackRaise

----------------------------------------------------------------------------
\* The phases of import_workspace, with sync_projects in full

Phases == 1..7

\* the projects Source has in the workspace, by name
TogglProjects == {<<>>, <<"Acme">>, <<"Acme", "Beta">>}

\* the status Target gives to every request that creates a project
ProjectAnswers == {201, 400, 403}

\* import_workspace(workspace, clue, start_time, end_time, args) has been
\* called: skip[i] is the flag process_phase gets for phase i
NewImport(skip, toggl_projs, answer) ==
    [idx |-> 1, skip |-> skip, status |-> "running", exc |-> None,
     code |-> 0, ran |-> {}, posts |-> <<>>, toggl_projs |-> toggl_projs,
     answer |-> answer]

NoImport ==
    [NewImport([i \in Phases |-> TRUE], <<>>, 201) EXCEPT !.status = "idle"]

\* def ingest(self, workspace, toggl_api, group_map, c_membership)
sig_ingest ==
    [params |-> <<"workspace", "toggl_api", "group_map", "c_membership">>,
     ndefaults |-> 0]

\* cull_same_name(toggl_items, clock_items): the items of Source whose name
\* Target does not have
cull_same_name(toggl_items, clock_names) ==
    SelectSeq(toggl_items, LAMBDA name : name \notin clock_names)

\* the loop of sync_projects over the new projects: c_proj.ingest(workspace,
\* self.toggl, t_proj, tgroupid_to_groupname, c_memberships), then
\* add_project(c_proj) and the branch on its RetVal; sys.exit(1) on FORBIDDEN
RECURSIVE add_projects(_, _, _, _)
add_projects(projs, answer, tpr, posts) ==
    IF projs = <<>>
    THEN [kind |-> "return", exc |-> None, code |-> 0, posts |-> posts]
    ELSE IF ~BindsOk(sig_ingest.params, sig_ingest.ndefaults, 5, {})
    THEN [kind |-> "raise", exc |-> "TypeError", code |-> 1, posts |-> posts]
    ELSE LET branch(r) ==
                 IF r.kind = "raise"
                 THEN [kind |-> "raise", exc |-> r.exc, code |-> 1,
                       posts |-> Append(posts, Head(projs))]
                 ELSE IF add_retval("projects", r.status) = "FORBIDDEN"
                 THEN [kind |-> "exit", exc |-> "SystemExit", code |-> 1,
                       posts |-> Append(posts, Head(projs))]
                 ELSE add_projects(Tail(projs), answer, r.tpr,
                                   Append(posts, Head(projs)))
         IN  branch(request("/workspaces/ws/projects", PyStr(admin_email),
                            PyDict(Head(projs)), "POST", <<answer, 200>>,
                            tpr))

\* sync_projects(workspace): _get_new_toggl_projects reads the projects of
\* Target through the cached list, then the loop over the new projects
sync_projects(workspace, toggl_projs, flag, cached, listed, answer, tpr) ==
    LET loop(r) ==
            IF r.kind = "raise"
            THEN [kind |-> "raise", exc |-> r.exc, code |-> 1, posts |-> <<>>,
                  flag |-> r.flag, data |-> r.data]
            ELSE add_projects(cull_same_name(toggl_projs, r.val), answer,
                              tpr, <<>>)
                 @@ [flag |-> r.flag, data |-> r.data]
    IN  loop(get_entities("projects", workspace, flag, cached, listed))

\* process_phase(idx, name, skip, func) with skip set
SkipPhase ==
    /\ ph.status = "running"
    /\ ph.idx \in Phases
    /\ ph.skip[ph.idx]
    /\ ph' = [ph EXCEPT !.idx = @ + 1]
    /\ UNCHANGED <<gw_vars, cache_vars, mg, user_vars, entry_vars, pf, st, tm, dl>>

\* process_phase(4, "Import projects", skip, sync_projects) without skip:
\* nothing handles an exception or the SystemExit of sys.exit(1)
SyncProjects ==
    /\ ph.status = "running"
    /\ ph.idx = 4
    /\ ~ph.skip[4]
    /\ LET step(r) ==
               /\ ph' = [ph EXCEPT
                           !.posts = r.posts,
                           !.exc = r.exc, !.code = r.code,
                           !.status = IF r.kind = "return" THEN "running"
                                      ELSE IF r.kind = "exit" THEN "exited"
                                      ELSE "raised",
                           !.ran = IF r.kind = "return" THEN @ \cup {4} ELSE @,
                           !.idx = IF r.kind = "return" THEN 5 ELSE 4]
               /\ need_resync' = [need_resync EXCEPT
                                    !["projects"] =
                                        IF r.kind = "return" /\ 201 = ph.answer
                                             /\ r.posts # <<>>
                                        THEN TRUE ELSE r.flag]
               /\ data' = [data EXCEPT !["projects"] = r.data]
       IN  step(sync_projects("ws", ph.toggl_projs, need_resync["projects"],
                              data["projects"], listing("projects"),
                              ph.answer, time_per_request))
    /\ UNCHANGED <<gw_vars, t_entities, t_users, created, cache_op, mg,
                   user_vars, entry_vars, pf, st, tm, dl>>

\* process_phase for another phase without skip: the function of the phase
\* returns its counts or raises; sync_clients reads the clients of Target
\* through the cached list first
RunPhase(outcome) ==
    /\ ph.status = "running"
    /\ ph.idx \in Phases \ {4}
    /\ ~ph.skip[ph.idx]
    /\ (outcome = "return" /\ ph.idx = 1)
          => get_entities("clients", "ws", need_resync["clients"],
                          data["clients"], listing("clients")).kind = "return"
    /\ ph' = IF outcome = "return"
             THEN [ph EXCEPT !.idx = @ + 1, !.ran = @ \cup {ph.idx}]
             ELSE [ph EXCEPT !.status = "raised", !.exc = "Exception",
                             !.code = 1]
    /\ UNCHANGED <<gw_vars, cache_vars, mg, user_vars, entry_vars, pf, st, tm, dl>>

\* import_workspace returns after phase 7
ImportDone ==
    /\ ph.status = "running"
    /\ ph.idx = 8
    /\ ph' = [ph EXCEPT !.status = "finished"]
    /\ UNCHANGED <<gw_vars, cache_vars, mg, user_vars, entry_vars, pf, st, tm, dl>>

PhasesNext ==
    \/ SkipPhase
    \/ SyncProjects
    \/ \E outcome \in {"return", "raise"} : RunPhase(outcome)
    \/ ImportDone

----------------------------------------------------------------------------
\* ClockifyAPI.__init__ as called by Clue.__init__ from migrate, before the
\* workspaces are imported

\* str.lower() and str.upper() on the strings of the model
Lower(s) == IF s = "Admin@co" THEN "admin@co" ELSE s
Upper(s) == IF s = "active" THEN "ACTIVE" ELSE s

\* what Target answers to GET /user for a configured token: the status of
\* the response and the user of the token
TokenAnswers ==
    [token : {"key_admin"}, status : {200, 401, 429}, email : {"admin@co"},
     ustatus : {"active", "INACTIVE"}]
    \cup [token : {"key_alice"}, status : {200, 401}, email : {"alice@co"},
          ustatus : {"ACTIVE"}]

\* _test_tokens(api_tokens): one GET /user for each token; tokens are the
\* tokens still to test with Target's answers, users is _api_users so far.
\* A 429 makes _request call self.request(url, None, "GET"), whose
\* _get_api_key(None) finds no user.
RECURSIVE test_tokens(_, _, _, _, _, _)
test_tokens(tokens, admin, fallback, users, found, sent) ==
    IF tokens = <<>>
    THEN IF ~found.admin \/ (fallback # None /\ ~found.fallback)
         THEN [kind |-> "raise", exc |-> "RuntimeError", users |-> users,
               sent |-> sent]
         ELSE [kind |-> "return", exc |-> None, users |-> users,
               sent |-> sent]
    ELSE LET t == Head(tokens)
             asked == Append(sent, "GET")
         IN  IF t.status = 429
             THEN [kind |-> "raise", exc |-> "AttributeError",
                   users |-> users, sent |-> asked]
             ELSE IF t.status # 200
                     \/ Upper(t.ustatus) \notin
                            {"ACTIVE", "PENDING_EMAIL_VERIFICATION"}
             THEN [kind |-> "raise", exc |-> "RuntimeError", users |-> users,
                   sent |-> asked]
             ELSE test_tokens(
                      Tail(tokens), admin, fallback,
                      Append(users, [token |-> t.token, email |-> t.email]),
                      [admin |-> found.admin \/ Lower(t.email) = Lower(admin),
                       fallback |-> found.fallback
                           \/ (fallback # None
                                 /\ Lower(t.email) = Lower(fallback))],
                      asked)

\* a _get_workspaces that takes every answer as the list of workspaces
get_workspaces_any_status(users, admin, status, sent) ==
    [kind |-> "return", exc |-> None, sent |-> Append(sent, "GET")]

\* _get_workspaces(): self.request(url, self.admin_email); _get_api_key
\* compares the emails as they are, and only a 200 gives the workspaces
get_workspaces(users, admin, status, sent) ==
    IF \A i \in DOMAIN users : users[i].email # admin
    THEN [kind |-> "raise", exc |-> "AttributeError", sent |-> sent]
    ELSE IF status = 429
    THEN [kind |-> "raise", exc |-> "AttributeError",
          sent |-> Append(sent, "GET")]
    ELSE IF status = 200
    THEN [kind |-> "return", exc |-> None, sent |-> Append(sent, "GET")]
    ELSE [kind |-> "raise", exc |-> "RuntimeError",
          sent |-> Append(sent, "GET")]

\* migrate has read the configuration: the admin email, the fallback email
\* and the phases to skip
NewStartup(admin, fallback, skip) ==
    [NewImport(skip, <<"Acme">>, 201) EXCEPT !.status = "startup"]
    @@ [admin |-> admin, fallback |-> fallback, tokens |-> <<>>,
        ws_status |-> 0, sent |-> <<>>]

\* Clue(...) in migrate: ClockifyAPI.__init__ tests the tokens and lists the
\* workspaces; nothing handles its exception, and import_workspace is called
\* only after it returned
Construct(tokens, ws_status) ==
    /\ ph.status = "startup"
    /\ LET listed(t, r) ==
               ph' = [ph EXCEPT
                        !.tokens = tokens, !.ws_status = ws_status,
                        !.sent = r.sent,
                        !.status = IF r.kind = "return" THEN "running"
                                   ELSE "raised",
                        !.exc = r.exc,
                        !.code = IF r.kind = "return" THEN 0 ELSE 1]
           tested(t) ==
               IF t.kind = "raise"
               THEN listed(t, t)
               ELSE listed(t, get_workspaces(t.users, ph.admin, ws_status,
                                             t.sent))
       IN  tested(test_tokens(tokens, ph.admin, ph.fallback, <<>>,
                              [admin |-> FALSE, fallback |-> FALSE], <<>>))
    /\ UNCHANGED <<gw_vars, cache_vars, mg, user_vars, entry_vars, pf, st, tm, dl>>

StartupNext ==
    \/ \E tokens \in SeqsUpTo(TokenAnswers, 2), ws_status \in {200, 403, 429} :
          Construct(tokens, ws_status)
    \/ PhasesNext

----------------------------------------------------------------------------
\* The timing of _request when the workers of the thread pool call it

\* the clock advances in steps of half the initial interval
TickLength == TimePerRequest0 \div 2

\* no worker has called _request; the clock of the model is stopped
NoTiming ==
    [on |-> FALSE, now |-> 0,
     start_ts |-> [i \in 1..MaxBatch |-> 0],
     free_at |-> [i \in 1..MaxBatch |-> 0],
     pc |-> [i \in 1..MaxBatch |-> "idle"],
     sends |-> <<>>]

\* _request in worker i: start_ts = time.time(), then requests.get / post /
\* put / delete; nothing is shared between the workers but time_per_request
GatewaySend(i) ==
    /\ tm.on
    /\ tm.pc[i] = "idle"
    /\ tm.now >= tm.free_at[i]
    /\ Len(tm.sends) < MaxCalls
    /\ tm' = [tm EXCEPT !.start_ts[i] = tm.now, !.pc[i] = "sent",
                        !.sends = Append(@, [worker |-> i, at |-> tm.now,
                                             interval |-> time_per_request])]
    /\ UNCHANGED <<gw_vars, cache_vars, mg, user_vars, entry_vars, pf, st, ph, dl>>

\* the response has come: _request sleeps for what is left of the interval
\* since start_ts; after a 429 it sleeps one second more, lengthens the
\* interval and calls self.request with shifted arguments, which raises
GatewayRespond(i, status) ==
    /\ tm.on
    /\ tm.pc[i] = "sent"
    /\ LET slept == IF tm.now - tm.start_ts[i] < time_per_request
                    THEN tm.start_ts[i] + time_per_request
                    ELSE tm.now
       IN  /\ tm' = [tm EXCEPT
                       !.pc[i] = IF status = 429 THEN "raised" ELSE "idle",
                       !.free_at[i] = IF status = 429 THEN slept + 1000000
                                      ELSE slept]
           /\ time_per_request' = IF status = 429
                                  THEN backoff(time_per_request)
                                  ELSE time_per_request
    /\ UNCHANGED <<n_requests, gw, cache_vars, mg, user_vars, entry_vars, pf,
                   st, ph, dl>>

\* time passes
Tick ==
    /\ tm.on
    /\ tm.now < MaxTicks * TickLength
    /\ tm' = [tm EXCEPT !.now = @ + TickLength]
    /\ UNCHANGED <<gw_vars, cache_vars, mg, user_vars, entry_vars, pf, st, ph, dl>>

TimingNext ==
    \/ \E i \in 1..MaxBatch : GatewaySend(i)
    \/ \E i \in 1..MaxBatch, status \in {200, 429, 500} :
          GatewayRespond(i, status)
    \/ Tick

----------------------------------------------------------------------------
\* Reads of one cached list by several workers of the thread pool

\* the lists Entry.process_ids reads through get_project_id and get_tag_id
ReadKinds == {"projects", "tags"}

\* a worker that is about to call CachedList.get_data of list k
NewReader(k) ==
    [pc |-> "called", k |-> k, exc |-> None, val |-> {}, fetched |-> FALSE]

\* get_data: if self.need_resync
CheckFlag(i) ==
    /\ i \in DOMAIN w
    /\ w[i].pc = "called"
    /\ w' = [w EXCEPT ![i] =
               IF need_resync[w[i].k] THEN [@ EXCEPT !.pc = "refreshing"]
               ELSE [@ EXCEPT !.pc = "returned", !.val = data[w[i].k]]]
    /\ UNCHANGED <<gw_vars, cache_vars, mg, user_vars, t_entries, reports,
                   batch, sync, rest_vars>>

\* get_data: self.refresh_data(api, args); self.need_resync = False;
\* return self.data
RefreshData(i) ==
    /\ i \in DOMAIN w
    /\ w[i].pc = "refreshing"
    /\ LET k == w[i].k
           step(r) ==
               /\ data' = IF r.kind = "raise" THEN data
                          ELSE [data EXCEPT ![k] = r.data]
               /\ need_resync' = IF r.kind = "raise" THEN need_resync
                                 ELSE [need_resync EXCEPT ![k] = FALSE]
               /\ n_requests' = n_requests + r.fetches
               /\ w' = [w EXCEPT ![i] =
                          IF r.kind = "raise" THEN raised(@, r.exc)
                          ELSE [@ EXCEPT !.pc = "returned", !.val = r.data,
                                         !.fetched = TRUE]]
       IN  step(refresh_data(k, listing(k)))
    /\ UNCHANGED <<time_per_request, gw, t_entities, t_users, created,
                   cache_op, mg, user_vars, t_entries, reports, batch, sync,
                   rest_vars>>

\* the phases that create entities run before the pool is started
ReadersNext ==
    \/ /\ \A i \in DOMAIN w : w[i].pc = "called"
       /\ \E k \in ReadKinds, name \in Names, status \in {201, 400, 429, 500} :
            AddEntity(k, name, status)
    \/ \E i \in 1..MaxBatch : CheckFlag(i)
    \/ \E i \in 1..MaxBatch : RefreshData(i)

----------------------------------------------------------------------------
\* delete_user_entries: the loop that deletes a user's time entries

\* an entry Target holds, with its id and its user
HeldEntry(id, user_id) == [OldEntry EXCEPT !.id = id, !.userId = user_id]

\* what Target may hold when delete_user_entries is called
DeleteTargets ==
    { <<>>,
      <<HeldEntry(1, "u_alice")>>,
      <<HeldEntry(1, "u_admin")>>,
      <<HeldEntry(1, "u_alice"), HeldEntry(2, "u_admin")>>,
      <<HeldEntry(1, "u_alice"), HeldEntry(2, "u_alice")>> }

\* Target's answer to a delete request: deleted, rejected, throttled
DeleteStatuses == {204, 403, 429}

NoDelete == [pc |-> "idle", email |-> None, user_id |-> None,
             entry_cnt |-> 0, tasks |-> <<>>, exc |-> None, queried |-> 0]

\* the first 50 entries of the user: what get_time_entries returns for the
\* query of delete_user_entries, which has neither start nor project
entries_of(entries, user_id) ==
    LET mine == SelectSeq(entries, LAMBDA c : c.userId = user_id)
    IN  SubSeq(mine, 1, IF Len(mine) > page_size THEN page_size
                        ELSE Len(mine))

\* delete_user_entries(email, workspace) up to its loop: user.clockify_id
\* raises AttributeError when email is that of no API token
DeleteCall(email) ==
    /\ dl.pc = "idle"
    /\ dl' = IF first_api_user(PyStr(email)) = 0
             THEN [NoDelete EXCEPT !.pc = "raised", !.email = email,
                                   !.exc = "AttributeError"]
             ELSE [NoDelete EXCEPT
                     !.pc = "query", !.email = email,
                     !.user_id =
                        api_users[first_api_user(PyStr(email))].clockify_id]
    /\ UNCHANGED <<gw_vars, cache_vars, mg, user_vars, entry_vars, pf, st, ph,
                   tm>>

\* the head of the loop: get_time_entries(query), answered with status; the
\* entries found become the tasks of starmap, none found or a failed query
\* ends the loop
DeleteQuery(status) ==
    /\ dl.pc = "query"
    /\ LET found(entries) ==
               [dl EXCEPT
                  !.queried = status, !.entry_cnt = Len(entries),
                  !.tasks = [i \in DOMAIN entries |->
                               [id |-> entries[i].id, pc |-> "queued"]],
                  !.pc = IF entries = <<>> THEN "returned" ELSE "deleting"]
           answer(r) ==
               /\ time_per_request' = r.tpr
               /\ dl' = IF r.kind = "raise"
                        THEN [dl EXCEPT !.pc = "raised", !.exc = r.exc,
                                        !.tasks = <<>>, !.queried = status]
                        ELSE IF ~Ok(r.status)
                        THEN [dl EXCEPT !.pc = "returned", !.entry_cnt = 0,
                                        !.tasks = <<>>, !.queried = status]
                        ELSE found(entries_of(t_entries, dl.user_id))
       IN  answer(request("/workspaces/ws/user/time-entries",
                          PyStr(dl.email), PyDict([description |-> ""]),
                          "GET", <<status, 200>>, time_per_request))
    /\ UNCHANGED <<n_requests, gw, cache_vars, mg, user_vars, entry_vars, pf,
                   st, ph, tm>>

\* delete_entry_threaded(entry_id, workspace_id, task_info) of task i, its
\* delete request answered with status
DeleteEntryThreaded(i, status) ==
    /\ dl.pc = "deleting"
    /\ i \in DOMAIN dl.tasks
    /\ dl.tasks[i].pc = "queued"
    /\ LET answer(r) ==
               /\ time_per_request' = r.tpr
               /\ t_entries' = IF r.kind = "return" /\ Ok(r.status)
                               THEN SelectSeq(t_entries,
                                      LAMBDA c : c.id # dl.tasks[i].id)
                               ELSE t_entries
               /\ dl' = [dl EXCEPT !.tasks[i].pc =
                           IF r.kind = "raise" THEN "raised"
                           ELSE IF Ok(r.status) THEN "O" ELSE "X"]
       IN  answer(request("/workspaces/ws/time-entries", PyStr(admin_email),
                          PyNone, "DELETE", <<status, 200>>,
                          time_per_request))
    /\ UNCHANGED <<n_requests, gw, cache_vars, mg, user_vars, reports, batch,
                   w, sync, pf, st, ph, tm>>

\* starmap returns the results of the tasks; entry_cnt is not 0, the loop
\* goes round
DeleteStarmapReturn ==
    /\ dl.pc = "deleting"
    /\ \A i \in DOMAIN dl.tasks : dl.tasks[i].pc \in {"O", "X"}
    /\ dl' = [dl EXCEPT !.pc = "query"]
    /\ UNCHANGED <<gw_vars, cache_vars, mg, user_vars, entry_vars, pf, st, ph,
                   tm>>

\* starmap raises the exception of a task that raised
DeleteStarmapRaise ==
    /\ dl.pc = "deleting"
    /\ \A i \in DOMAIN dl.tasks : dl.tasks[i].pc # "queued"
    /\ \E i \in DOMAIN dl.tasks : dl.tasks[i].pc = "raised"
    /\ dl' = [dl EXCEPT !.pc = "raised", !.exc = "AttributeError"]
    /\ UNCHANGED <<gw_vars, cache_vars, mg, user_vars, entry_vars, pf, st, ph,
                   tm>>

DeleteNext ==
    \/ \E email \in {"alice@co", "admin@co", "bob@co"} : DeleteCall(email)
    \/ \E status \in {200, 429, 500} : DeleteQuery(status)
    \/ \E i \in 1..MaxBatch, status \in DeleteStatuses :
          DeleteEntryThreaded(i, status)
    \/ DeleteStarmapReturn
    \/ DeleteStarmapRaise

----------------------------------------------------------------------------
\* Initial states and specifications

GatewayInit ==
    /\ time_per_request = TimePerRequest0
    /\ n_requests = 0
    /\ gw = NoCall

\* the cached lists as CachedList.__init__ leaves them; Target holds some
\* entities and users already
CacheInit ==
    /\ need_resync = [k \in Kinds |-> TRUE]
    /\ data = [k \in Kinds |-> {}]
    /\ t_entities \in {[k \in CreateKinds |-> ns] : ns \in {{}, {"Acme"}}}
    /\ t_users \in TargetUserSets
    /\ created = [k \in Kinds |-> {}]
    /\ cache_op = NoCacheOp

\* the same with one fixed content of Target
CacheFixed ==
    /\ need_resync = [k \in Kinds |-> TRUE]
    /\ data = [k \in Kinds |-> {}]
    /\ t_entities = [k \in CreateKinds |-> {}]
    /\ t_users = CHOOSE us \in TargetUserSets : Cardinality(us) = 1
    /\ created = [k \in Kinds |-> {}]
    /\ cache_op = NoCacheOp

\* Clue after sync_entries set the workspace and the skip flag; the fallback
\* email, when configured, is the email of one of the API tokens
UserInit ==
    /\ cfg \in [workspace : Workspaces \cup {"nows"}, skip : BOOLEAN,
                fallback : {None, admin_email}]
    /\ toggl_resync_users = TRUE
    /\ ve = NoVerify

UserFixed ==
    /\ cfg = [workspace |-> "ws", skip |-> FALSE, fallback |-> None]
    /\ toggl_resync_users = TRUE
    /\ ve = NoVerify

\* the entries phase at the first page of the first run
EntryInit ==
    /\ t_entries \in {<<>>, <<OldEntry>>}
    /\ reports \in Reports
    /\ batch = NoBatch
    /\ w = <<>>
    /\ sync = NewSync(1, {})

EntryFixed ==
    /\ t_entries = <<>>
    /\ reports = <<>>
    /\ batch = NoBatch
    /\ w = <<>>
    /\ sync = NewSync(1, {})

NoApply == [op |-> None, e |-> NoneOf, other |-> NoneOf, kind |-> None,
            exc |-> None, val |-> NoneOf]

RestFixed ==
    /\ pf = NoApply
    /\ st = NoStream
    /\ ph = NoImport
    /\ tm = NoTiming
    /\ dl = NoDelete

InitGateway ==
    GatewayInit /\ CacheFixed /\ mg = NoFetch /\ UserFixed /\ EntryFixed
        /\ RestFixed
SpecGateway == InitGateway /\ [][GatewayNext]_vars

InitCache ==
    GatewayInit /\ CacheInit /\ mg = NoFetch /\ UserFixed /\ EntryFixed
        /\ RestFixed
SpecCache == InitCache /\ [][CacheNext]_vars

InitPaging ==
    GatewayInit /\ CacheFixed /\ mg = NoFetch /\ UserFixed /\ EntryFixed
        /\ RestFixed
SpecPaging == InitPaging /\ [][PagingNext]_vars

InitUser ==
    GatewayInit /\ CacheInit /\ mg = NoFetch /\ UserInit /\ EntryFixed
        /\ RestFixed
SpecUser == InitUser /\ [][UserNext]_vars

Init ==
    GatewayInit /\ CacheFixed /\ mg = NoFetch /\ UserFixed /\ EntryInit
        /\ RestFixed
Spec == Init /\ [][Next]_vars

InitFunctions ==
    GatewayInit /\ CacheFixed /\ mg = NoFetch /\ UserFixed /\ EntryFixed
        /\ RestFixed
SpecFunctions == InitFunctions /\ [][FunctionsNext]_vars

InitReports ==
    /\ GatewayInit /\ CacheFixed /\ mg = NoFetch /\ UserFixed /\ EntryFixed
    /\ pf = NoApply
    /\ st \in {NewStream(until) : until \in Untils}
    /\ ph = NoImport
    /\ tm = NoTiming
    /\ dl = NoDelete
SpecReports == InitReports /\ [][ReportsNext]_vars

InitPhases ==
    /\ GatewayInit /\ CacheFixed /\ mg = NoFetch /\ UserFixed /\ EntryFixed
    /\ pf = NoApply
    /\ st = NoStream
    /\ tm = NoTiming
    /\ dl = NoDelete
    /\ ph \in {NewImport(skip, toggl_projs, answer) :
                  skip \in [Phases -> BOOLEAN],
                  toggl_projs \in TogglProjects, answer \in ProjectAnswers}
SpecPhases == InitPhases /\ [][PhasesNext]_vars

InitStartup ==
    /\ GatewayInit /\ CacheFixed /\ mg = NoFetch /\ UserFixed /\ EntryFixed
    /\ pf = NoApply
    /\ st = NoStream
    /\ tm = NoTiming
    /\ dl = NoDelete
    /\ ph \in {NewStartup(admin, fallback, skip) :
                  admin \in {"admin@co", "Admin@co", "ghost@co"},
                  fallback \in {None, "alice@co", "ghost@co"},
                  skip \in {[i \in Phases |-> TRUE],
                            [i \in Phases |-> i \in {1, 4}],
                            [i \in Phases |-> i = 1]}}
SpecStartup == InitStartup /\ [][StartupNext]_vars

InitTiming ==
    /\ GatewayInit /\ CacheFixed /\ mg = NoFetch /\ UserFixed /\ EntryFixed
    /\ pf = NoApply /\ st = NoStream /\ ph = NoImport
    /\ tm = [NoTiming EXCEPT !.on = TRUE]
    /\ dl = NoDelete
SpecTiming == InitTiming /\ [][TimingNext]_vars

InitReaders ==
    /\ GatewayInit /\ CacheInit /\ mg = NoFetch /\ UserFixed /\ RestFixed
    /\ t_entries = <<>> /\ reports = <<>> /\ batch = NoBatch
    /\ sync = NewSync(1, {})
    /\ w \in {[i \in 1..MaxBatch |-> NewReader(ks[i])] :
                ks \in [1..MaxBatch -> ReadKinds]}
SpecReaders == InitReaders /\ [][ReadersNext]_vars

InitDelete ==
    /\ GatewayInit /\ CacheFixed /\ mg = NoFetch /\ UserFixed
    /\ t_entries \in DeleteTargets
    /\ reports = <<>> /\ batch = NoBatch /\ w = <<>> /\ sync = NewSync(1, {})
    /\ pf = NoApply /\ st = NoStream /\ ph = NoImport /\ tm = NoTiming
    /\ dl = NoDelete
SpecDelete == InitDelete /\ [][DeleteNext]_vars

\* the program keeps running and every request gets a response
SpecDeleteFair == SpecDelete /\ WF_vars(DeleteNext)

----------------------------------------------------------------------------
\* Claims

\* an entry and a candidate are the same in start, project, description,
\* user and tags
SameEntry(e, c) ==
    /\ c.timeInterval.start = e.start
    /\ c.projectId = e.proj_id
    /\ c.description = e.description
    /\ c.userId = e.user_id
    /\ Range(IF c.tagIds = NoneOf THEN <<>> ELSE c.tagIds[1])
         = Range(IF e.tag_ids = NoneOf THEN <<>> ELSE e.tag_ids[1])

\* diff as the specification states it: an entry and a candidate differ in
\* start, in project when the candidate has one, in description, in user,
\* or in tags when the entry specifies tags
Differs(e, c) ==
    \/ c.timeInterval.start # e.start
    \/ (c.projectId # None /\ c.projectId # e.proj_id)
    \/ c.description # e.description
    \/ c.userId # e.user_id
    \/ /\ e.tag_names # NoneOf
       /\ Range(IF c.tagIds = NoneOf THEN <<>> ELSE c.tagIds[1])
            # Range(IF e.tag_ids = NoneOf THEN <<>> ELSE e.tag_ids[1])

\* the duplicate-check query of task i was answered with a success status
Queried(i) == w[i].pc # "queued" /\ w[i].pc # "resolved" /\ Ok(w[i].got)
                /\ w[i].got # 0

C2_DuplicateIsSkipped ==
    \A i \in DOMAIN w :
        (Queried(i)
            /\ \E k \in DOMAIN w[i].cands : SameEntry(w[i].e, w[i].cands[k]))
        => /\ w[i].pc \in {"counting", "done"}
           /\ w[i].out = "EXISTS"
           /\ w[i].posts = <<>>

\* C3: when the duplicate-check query succeeds and every returned candidate
\* differs from the entry, add_entry sends exactly one create request with
\* the body of to_api_dict, and returns OK if Target accepts it and ERR
\* otherwise.
C3_NewEntryIsCreated ==
    \A i \in DOMAIN w :
        (Queried(i)
            /\ \A k \in DOMAIN w[i].cands : Differs(w[i].e, w[i].cands[k]))
        => \/ w[i].pc = "checked"
           \/ /\ w[i].pc \in {"counting", "done"}
              /\ w[i].posts = <<to_api_dict(w[i].e)>>
              /\ w[i].out = IF w[i].posted \in {200, 201} THEN "OK" ELSE "ERR"

RECURSIVE RowsOf(_)
\* the number of rows of a sequence of pages
RowsOf(pages) ==
    IF pages = <<>> THEN 0 ELSE Len(Head(pages)) + RowsOf(Tail(pages))

Outcomes(retval) == {i \in DOMAIN w : w[i].out = retval}

C6_RetrySameRequest ==
    (gw.kind # None /\ Len(gw.statuses) > 0 /\ Len(gw.sent) > 0
        /\ gw.statuses[1] = 429)
    => /\ gw.kind = "return"
       /\ gw.status = gw.statuses[2]
       /\ Len(gw.sent) = 2
       /\ gw.sent[2] = gw.sent[1]
       /\ time_per_request = backoff(gw.tpr0)

\* C7: after a create call of a kind succeeded, the next read of that kind
\* makes exactly one fetch from Target, clears the refresh flag that was set,
\* and returns a list that contains the created entity.
C7_ReadAfterCreate ==
    (cache_op.op = "get" /\ cache_op.name \in Workspaces
        /\ created[cache_op.k] # {})
    => /\ cache_op.kind = "return"
       /\ cache_op.flag0 => (cache_op.fetches = 1 /\ ~need_resync[cache_op.k])
       /\ created[cache_op.k] \subseteq cache_op.val

\* C8: the paginated fetch stops: over a server that serves n items in
\* consecutive pages it gets at most ceil(n / 50) + 1 pages, over a server
\* that returns the same full page every time it gets at most 2, and it is
\* never still running once that many pages were answered.
C8_Limit ==
    IF mg.server = "stuck" THEN 2
    ELSE (mg.n + page_size - 1) \div page_size + 1

C8_FetchTerminates ==
    mg.pc \in {"loop", "returned"}
    => /\ mg.served <= C8_Limit
       /\ mg.pc = "loop" => mg.served < C8_Limit

\* a fetch of 100 items in consecutive pages returned after 3 pages, and a
\* fetch from the repeating server is what the other disjunct of the claim
\* is about
C8_Witness ==
    /\ mg.pc = "returned" /\ mg.server = "consecutive"
    /\ mg.n = 2 * page_size /\ mg.served = 3
    /\ Len(mg.retval_data) = mg.n

\* C9: verify_email returns the Source user's email only when that email is
\* the email of a Target user of the workspace; when it is not (or the Source
\* user has no email) and a Target user has the Source user's name as its
\* display name, verify_email returns that Target user's email.
C9_EmailThenName ==
    ve.srckind = "return" =>
        LET emails == {u.email : u \in t_users}
            named == {u \in t_users : u.name = ve.user}
            known == cfg.workspace \in Workspaces
        IN  /\ (ve.kind = "return" /\ ve.val # None /\ ve.val = ve.src)
                    => (known /\ ve.src \in emails)
            /\ (known /\ ve.src \notin emails /\ named # {})
                    => (ve.kind = "return" /\ \E u \in named : ve.val = u.email)

\* C10: when the Source user matches no Target user by email or by display
\* name, verify_email returns None if skip-invalid-users is set, otherwise
\* the fallback email if one is configured, and fails otherwise.
C10_SkipFallbackFail ==
    ve.srckind = "return" =>
        LET emails == {u.email : u \in t_users}
            named == {u \in t_users : u.name = ve.user}
            known == cfg.workspace \in Workspaces
        IN  (~known \/ (ve.src \notin emails /\ named = {}))
            => IF cfg.skip THEN ve.kind = "return" /\ ve.val = None
               ELSE IF cfg.fallback # None
               THEN ve.kind = "return" /\ ve.val = cfg.fallback
               ELSE ve.kind = "raise"

\* the page the batch of tasks belongs to
BatchPage == IF batch.state = "returned" THEN sync.page - 1 ELSE sync.page

\* the rows of a page for which verify_email returned None, and the others
NoEmailRows(page) == {k \in DOMAIN page : page[k].verified = None}
EmailRows(page) == {k \in DOMAIN page : page[k].verified # None}

C12_DiffExactMatch ==
    (pf.op = "diff_entry" /\ SameEntry(pf.e[1], pf.other[1]))
    => (pf.kind = "return" /\ pf.val = Some(FALSE))

\* which of start, project, description, user and tags differ between an
\* entry and a candidate
ChangedFields(e, c) ==
    {f \in {"start", "project", "description", "user", "tags"} :
        \/ f = "start" /\ c.timeInterval.start # e.start
        \/ f = "project" /\ c.projectId # e.proj_id
        \/ f = "description" /\ c.description # e.description
        \/ f = "user" /\ c.userId # e.user_id
        \/ f = "tags"
             /\ Range(IF c.tagIds = NoneOf THEN <<>> ELSE c.tagIds[1])
                  # Range(IF e.tag_ids = NoneOf THEN <<>> ELSE e.tag_ids[1])}

\* C13: diff sensitivity: for a candidate that differs from the entry in
\* exactly one of start, project id, description, user id and tag set,
\* diff_entry returns True.
C13_DiffSensitivity ==
    (pf.op = "diff_entry"
        /\ Cardinality(ChangedFields(pf.e[1], pf.other[1])) = 1)
    => (pf.kind = "return" /\ pf.val = Some(TRUE))

\* the tasks of the worker pool that have neither returned nor raised
Unfinished == {i \in DOMAIN w : w[i].pc \notin {"done", "raised"}}

\* C14: pages are processed one after another: the batch of a page is started
\* only when every worker of the batch before it has returned, the page it is
\* started for is the one after the page of that batch, and the tasks of the
\* pool are then those of the rows of this page only.
C14_PagesOneAfterAnother ==
    [][(batch.state # "running" /\ batch'.state = "running")
        => /\ Unfinished = {}
           /\ batch.state = "returned" => sync'.page = BatchPage + 1
           /\ Len(w') = Cardinality(EmailRows(reports[sync'.page]))
           /\ \A i \in DOMAIN w' :
                /\ w'[i].pc = "queued"
                /\ \E k \in EmailRows(reports[sync'.page]) :
                     /\ w'[i].e.utc_start = time_to_utc(reports[sync'.page][k].start)
                     /\ w'[i].e.project_name = reports[sync'.page][k].project
                     /\ w'[i].e.tag_names = reports[sync'.page][k].tags]_vars

\* the batch of the second page is running, after the task of the first
\* page has returned and was counted
C14_Witness ==
    /\ sync.run = 1 /\ sync.page = 2
    /\ batch.state = "running"
    /\ sync.num_entries = 1 /\ sync.num_ok = 1
    /\ Len(w) = 1 /\ Unfinished # {}

\* the answers of Source that carry rows, and those that end a window
WithRows(r) == r.status = 200 /\ Len(r.rows) > 0
EndsWindow(r) == r.status = 400 \/ (r.status = 200 /\ Len(r.rows) = 0)

\* C15: within one date window the pages are requested in the order 1, 2,
\* 3, ...; the callback is called once for every page with rows, with the
\* rows and the total count of the answer, and for no other answer; the first
\* answer with status 400 or without rows is the last request of the window,
\* and the streamer goes on without an exception.
C15_WindowPaging ==
    LET log == st.log
        pages == SelectSeq(log, WithRows)
    IN  /\ \A i \in DOMAIN log :
              log[i].page = IF i > 1 /\ log[i - 1].win = log[i].win
                            THEN log[i - 1].page + 1 ELSE 1
        /\ Len(st.calls) = Len(pages)
        /\ \A k \in DOMAIN pages :
              st.calls[k] = [win |-> pages[k].win, page |-> pages[k].page,
                             data |-> Some(pages[k].rows),
                             total |-> pages[k].total]
        /\ \A i \in DOMAIN log :
              /\ (EndsWindow(log[i]) /\ i < Len(log))
                    => log[i + 1].win = log[i].win + 1
              /\ (WithRows(log[i]) /\ i < Len(log))
                    => log[i + 1].win = log[i].win
        /\ (log # <<>> /\ EndsWindow(log[Len(log)]))
              => (st.exc = None /\ st.pc \in {"window", "request", "finished"})

\* a window of two pages with rows that ended with a page without rows, and
\* a second window that ended with a 400 after one page
C15_Witness ==
    /\ st.pc = "finished"
    /\ Len(st.wins) = 2 /\ Len(st.log) = 5 /\ Len(st.calls) = 3
    /\ st.log[3] = [win |-> 1, page |-> 3, status |-> 200, rows |-> <<>>,
                    total |-> 2]
    /\ st.log[5].status = 400 /\ st.log[5].page = 2
    /\ st.calls[2] = [win |-> 1, page |-> 2, data |-> Some(<<"r1", "r2">>),
                      total |-> 3]

\* the calls callback(None, 0)
Markers == {k \in DOMAIN st.calls : st.calls[k].data = NoneOf}

\* C16, as stated: callback(None, 0) is called exactly once after every date
\* window that is not the last one, before the next window is begun, and not
\* after the last window.
C16_MarkerBetweenWindows ==
    st.wins # <<>> =>
        Cardinality(Markers) = IF st.pc = "window" THEN Len(st.wins)
                               ELSE Len(st.wins) - 1

\* C16, as the code has it: the streamer never calls callback(None, 0), every
\* call of the callback carries the rows of a page of a window; after a window
\* that is not the last one the streamer goes on with the window that starts
\* where it ended, and it returns only when a window has ended at until.
C16_NoMarkerBetweenWindows ==
    /\ Markers = {}
    /\ \A k \in DOMAIN st.calls :
          /\ Len(st.calls[k].data[1]) > 0
          /\ st.calls[k].win \in DOMAIN st.wins
          /\ k > 1 => st.calls[k].win >= st.calls[k - 1].win
    /\ \A k \in DOMAIN st.wins :
          /\ st.wins[k].since = IF k = 1 THEN 0 ELSE st.wins[k - 1].until
          /\ st.wins[k].until <= st.until
          /\ st.wins[k].until - st.wins[k].since <= WindowDays
    /\ (st.pc = "window" /\ st.wins # <<>>)
          => st.next_start = st.wins[Len(st.wins)].until
    /\ st.pc = "finished" => st.wins[Len(st.wins)].until = st.until

\* three windows, with rows in the first and in the third: the callback was
\* called twice, and the streamer has returned
C16_Witness ==
    /\ st.pc = "finished"
    /\ Len(st.wins) = 3
    /\ Len(st.calls) = 2
    /\ st.calls[1].win = 1 /\ st.calls[2].win = 3

\* the create requests of the running batch: task and position in its posts
Posts == {<<i, k>> \in (1..MaxBatch) \X (1..MaxCalls) :
            i \in DOMAIN w /\ k \in DOMAIN w[i].posts}

\* C17: the body of every create request has start and end; start is the
\* start of the entry, end is the end of the entry and, for an entry without
\* end, its start.
C17_StartAndEnd ==
    \A p \in Posts :
        LET e == w[p[1]].e
            body == w[p[1]].posts[p[2]]
        IN  /\ {"start", "end"} \subseteq DOMAIN body
            /\ body.start = e.start
            /\ body.start = isoformat_tz(e.utc_start, "Z")
            /\ e.end = NoneOf => body.end = body.start
            /\ e.end # NoneOf => body.end = e.end[1]

\* an entry without end was created with end = start
C17_Witness ==
    \E p \in Posts :
        /\ w[p[1]].e.end = NoneOf
        /\ w[p[1]].out = "OK"
        /\ w[p[1]].posts[p[2]].end = w[p[1]].posts[p[2]].start
        /\ \E k \in DOMAIN t_entries :
              t_entries[k].timeInterval.end = w[p[1]].posts[p[2]].start

\* C18: in the body to_api_dict gives for an entry with resolved ids,
\* projectId is there exactly if the entry has a project, taskId exactly if a
\* task id was resolved, and tagIds exactly if the tags of the entry were
\* given: [] for tags given as empty, no field for tags not given.
C18_OptionalFields ==
    pf.op = "to_api_dict" =>
        LET e == pf.e[1]
            body == pf.val[1]
        IN  /\ "projectId" \in DOMAIN body <=> e.project_name # None
            /\ "projectId" \in DOMAIN body => body.projectId = e.proj_id
            /\ "taskId" \in DOMAIN body <=> e.task_id # None
            /\ "taskId" \in DOMAIN body => body.taskId = e.task_id
            /\ "tagIds" \in DOMAIN body <=> e.tag_names # NoneOf
            /\ e.tag_names = Some(<<>>) => body.tagIds = <<>>
            /\ "tagIds" \in DOMAIN body =>
                  /\ Len(body.tagIds) = Len(e.tag_names[1])
                  /\ \A k \in DOMAIN body.tagIds :
                        body.tagIds[k] = IdOf(e.tag_names[1][k])

\* an entry with a project and a task whose tags were given as empty: the
\* body has projectId, taskId and tagIds = []
C18_Witness ==
    /\ pf.op = "to_api_dict"
    /\ pf.e[1].project_name = "Acme" /\ pf.e[1].task_name = "task1"
    /\ pf.e[1].tag_names = Some(<<>>)
    /\ {"projectId", "taskId", "tagIds"} \subseteq DOMAIN pf.val[1]
    /\ pf.val[1].tagIds = <<>>

\* how many results of a page have the outcome retval
NumOutcome(results, retval) ==
    Cardinality({i \in DOMAIN results : results[i][1] = retval})

\* C19: when the results of a page are counted, every EXISTS adds one to the
\* skip count and nothing to the ok and error counts, every OK adds one to
\* the ok count only and every ERR one to the error count only.
C19_CountsPerOutcome ==
    pf.op = "count_results" =>
        LET before == pf.e[1]
            results == pf.other[1].results
            after == pf.val[1]
        IN  /\ after.num_skip = before.num_skip + NumOutcome(results, "EXISTS")
            /\ after.num_ok = before.num_ok + NumOutcome(results, "OK")
            /\ after.num_err = before.num_err + NumOutcome(results, "ERR")
            /\ \A retval \in {"OK", "EXISTS", "ERR"} :
                  results = <<<<retval, NoneOf>>>> =>
                      /\ after.num_skip - before.num_skip
                            = IF retval = "EXISTS" THEN 1 ELSE 0
                      /\ after.num_ok - before.num_ok
                            = IF retval = "OK" THEN 1 ELSE 0
                      /\ after.num_err - before.num_err
                            = IF retval = "ERR" THEN 1 ELSE 0

\* a page with one result of each outcome was counted, and a page with the
\* single result EXISTS is among the calls
C19_Witness ==
    /\ pf.op = "count_results"
    /\ pf.other[1].results
          = <<<<"EXISTS", NoneOf>>, <<"OK", NoneOf>>, <<"ERR", NoneOf>>>>
    /\ pf.e[1].num_skip = 1 /\ pf.val[1].num_skip = 2
    /\ pf.e[1].num_ok = 0 /\ pf.val[1].num_ok = 1
    /\ pf.e[1].num_err = 0 /\ pf.val[1].num_err = 1

StartupFails ==
    \/ \E i \in DOMAIN ph.tokens :
          \/ ph.tokens[i].status # 200
          \/ Upper(ph.tokens[i].ustatus) = "INACTIVE"
    \/ \A i \in DOMAIN ph.tokens :
          Lower(ph.tokens[i].email) # Lower(ph.admin)
    \/ /\ ph.fallback # None
       /\ \A i \in DOMAIN ph.tokens :
             Lower(ph.tokens[i].email) # Lower(ph.fallback)
    \/ ph.ws_status # 200

\* C21: when a token is not authenticated, the admin or fallback email is
\* that of no token, or the workspaces cannot be listed, the construction
\* raises: no phase is begun, and only GET requests were sent to Target.
C21_StartupFailureIsFatal ==
    (ph.status \notin {"idle", "startup"} /\ "tokens" \in DOMAIN ph
        /\ StartupFails)
    => /\ ph.status = "raised"
       /\ ph.idx = 1 /\ ph.ran = {} /\ ph.posts = <<>>
       /\ \A k \in DOMAIN ph.sent : ph.sent[k] = "GET"

\* both tokens were accepted and the list of workspaces was refused
C21_Witness ==
    /\ ph.status = "raised" /\ ph.exc = "RuntimeError"
    /\ "tokens" \in DOMAIN ph
    /\ Len(ph.tokens) = 2
    /\ \A i \in DOMAIN ph.tokens : ph.tokens[i].status = 200
    /\ ph.ws_status = 403
    /\ Len(ph.sent) = 3
    /\ ph.idx = 1

\* C22: between two consecutive requests sent to Target through _request, by
\* the same or by different workers, at least the interval in force when the
\* later one is sent has passed.
C22_MinInterval ==
    \A k \in DOMAIN tm.sends :
        k > 1 => tm.sends[k].at - tm.sends[k - 1].at >= tm.sends[k].interval

\* C23: a call whose request is answered with a status other than 429,
\* success or failure, returns that response to the caller: it does not
\* raise, nothing is sent again, and time_per_request stays as it was.
C23_OtherStatusReturned ==
    (gw.kind # None /\ Len(gw.sent) > 0 /\ gw.statuses[1] # 429)
    => /\ gw.kind = "return"
       /\ gw.status = gw.statuses[1]
       /\ Len(gw.sent) = 1
       /\ gw.sent[1].typ = gw.typ /\ gw.sent[1].url = gw.url
       /\ time_per_request = gw.tpr0
       /\ n_requests <= MaxCalls

\* a POST that Target answered with 500 was returned to the caller
C23_Witness ==
    /\ gw.kind = "return"
    /\ gw.typ = "POST"
    /\ gw.statuses[1] = 500 /\ gw.status = 500
    /\ Len(gw.sent) = 1
    /\ time_per_request = TimePerRequest0

\* the terminal states of one entry's processing, read off a worker's task
Duplicate(task) ==
    task.out = "EXISTS" /\ task.got # 0 /\ task.posts = <<>>

Created(task) ==
    task.out = "OK" /\ task.got # 0 /\ Len(task.posts) = 1

SubmitFailed(task) ==
    task.out = "ERR" /\ task.got # 0 /\ Len(task.posts) = 1

IdentitySwitchFailed(task) ==
    task.out = "ERR" /\ task.got = 0 /\ task.posts = <<>>

\* C24: every entry handed to add_entries_threaded ends in exactly one of
\* Duplicate, Created, SubmitFailed and IdentitySwitchFailed, along New ->
\* IdsResolved -> Duplicate, New -> IdsResolved -> Submitted -> Created or
\* SubmitFailed, or New -> IdentitySwitchFailed: a task that is over has a
\* result of one of the four kinds, and a task that is not over has issued
\* no create request
C24_EntryStateMachine ==
    \A i \in DOMAIN w :
        IF w[i].pc \in {"queued", "resolved", "checked"}
        THEN w[i].posts = <<>> /\ w[i].out = None
        ELSE /\ w[i].pc \in {"counting", "done"}
             /\ \/ Duplicate(w[i])
                \/ Created(w[i])
                \/ SubmitFailed(w[i])
                \/ IdentitySwitchFailed(w[i])

\* the pages 1..k of a server, one after the other
RECURSIVE PagesUpTo(_, _, _)
PagesUpTo(server, n, k) ==
    IF k = 0 THEN <<>>
    ELSE PagesUpTo(server, n, k - 1) \o server_page(server, n, k)

\* page p is the page the fetch stops at: it has fewer than 50 items, or its
\* first id is an id of an earlier page
StopsAt(server, n, p) ==
    LET stops(page_data) ==
            IF Len(page_data) < 50 THEN TRUE
            ELSE \E i \in DOMAIN PagesUpTo(server, n, p - 1) :
                    PagesUpTo(server, n, p - 1)[i] = page_data[1]
    IN  stops(server_page(server, n, p))

\* C25: multi_get_request returns the concatenation, in order, of the pages
\* 1..k, where k is the first page that is short (and included) or whose
\* first id is already accumulated (and excluded); every full page before k
\* is included once and no page after k is requested.
C25_Concatenation ==
    /\ mg.pc = "loop"
        => /\ mg.page = mg.served + 1
           /\ mg.retval_data = PagesUpTo(mg.server, mg.n, mg.served)
           /\ \A p \in 1..mg.served : ~StopsAt(mg.server, mg.n, p)
    /\ mg.pc = "returned"
        => /\ mg.served >= 1
           /\ mg.page = mg.served
           /\ StopsAt(mg.server, mg.n, mg.served)
           /\ \A p \in 1..(mg.served - 1) : ~StopsAt(mg.server, mg.n, p)
           /\ mg.retval_data =
                PagesUpTo(mg.server, mg.n, mg.served - 1)
                \o (IF Len(server_page(mg.server, mg.n, mg.served)) < 50
                    THEN server_page(mg.server, mg.n, mg.served) ELSE <<>>)

\* a fetch of 101 items returned the full pages 1 and 2 and the short page 3
C25_Witness ==
    /\ mg.pc = "returned"
    /\ mg.server = "consecutive" /\ mg.n = 101 /\ mg.served = 3
    /\ Len(mg.retval_data) = 101 /\ mg.retval_data[101] = 101

\* C26: a read of a cached list through get_entities (CachedList.get_data),
\* for every kind: with the refresh flag set it makes one fetch from Target,
\* replaces the cached list by what Target holds and clears the flag; with
\* the flag clear it sends nothing and returns the cached list as it is.
C26_LazyRefresh ==
    (cache_op.op = "get" /\ cache_op.name \in Workspaces)
    => /\ cache_op.kind = "return"
       /\ cache_op.val = data[cache_op.k]
       /\ IF cache_op.flag0
          THEN /\ cache_op.fetches = 1
               /\ ~need_resync[cache_op.k]
               /\ data[cache_op.k] = listing(cache_op.k)
          ELSE cache_op.fetches = 0

\* the workers whose read of list k fetched it from Target
Fetchers(k) == {i \in DOMAIN w : w[i].k = k /\ w[i].fetched}

TagSet(tag_ids) == Range(IF tag_ids = NoneOf THEN <<>> ELSE tag_ids[1])

\* an entry and a candidate with the same start, project, description and
\* user
SameButTags(e, c) ==
    /\ c.timeInterval.start = e.start
    /\ c.projectId = e.proj_id
    /\ c.description = e.description
    /\ c.userId = e.user_id

\* C28: diff_entry compares tags only when the entry specifies tags: against
\* a candidate that is the same in start, project, description and user it
\* returns False for an entry without tags, whatever the candidate's tags,
\* and for an entry with tags it returns whether the two sets of tag ids
\* differ, a null list of the candidate counting as the empty set.
C28_TagsOnlyWhenSpecified ==
    (pf.op = "diff_entry" /\ SameButTags(pf.e[1], pf.other[1]))
    => /\ pf.kind = "return"
       /\ pf.val = Some(IF pf.e[1].tag_ids = NoneOf THEN FALSE
                        ELSE TagSet(pf.e[1].tag_ids)
                               # TagSet(pf.other[1].tagIds))

\* an entry and a candidate with the same start, description, user and tags
SameButProject(e, c) ==
    /\ c.timeInterval.start = e.start
    /\ c.description = e.description
    /\ c.userId = e.user_id
    /\ TagSet(c.tagIds) = TagSet(e.tag_ids)

\* C29 as stated: diff_entry reports a project difference exactly when the
\* candidate has a project id and it differs from the entry's resolved
\* project id: against a candidate that is the same in everything else it
\* returns True in that case and in no other.
C29_CandidateProject ==
    (pf.op = "diff_entry" /\ SameButProject(pf.e[1], pf.other[1]))
    => ((pf.kind = "return" /\ pf.val = Some(TRUE))
        <=> (pf.other[1].projectId # None
             /\ pf.other[1].projectId # pf.e[1].proj_id))

\* C29, amended: diff_entry reports a project difference exactly when the
\* entry has a resolved project id and the candidate's project id differs
\* from it, a candidate without project included; for an entry without
\* project it never returns True on account of the project.
C29_EntryProject ==
    (pf.op = "diff_entry" /\ SameButProject(pf.e[1], pf.other[1]))
    => ((pf.kind = "return" /\ pf.val = Some(TRUE))
        <=> (pf.e[1].proj_id # None
             /\ pf.other[1].projectId # pf.e[1].proj_id))

\* an entry of project Acme was compared with a candidate without project
\* that is the same in everything else, and diff_entry returned True
C29_Witness ==
    /\ pf.op = "diff_entry" /\ SameButProject(pf.e[1], pf.other[1])
    /\ pf.e[1].proj_id # None /\ pf.other[1].projectId = None
    /\ pf.kind = "return" /\ pf.val = Some(TRUE)

\* C30: a lookup of an id by name or email, for every kind: it fails with
\* NotFound only after a fetch of the kind was made and Target's list holds
\* no match, it returns an id only of a match, and the lookup with null_ok
\* returns the absent value instead of failing when there is no match.
C30_ResolveId ==
    cache_op.op = "resolve"
    => /\ (cache_op.kind = "raise" /\ cache_op.exc = "RuntimeError")
            => /\ cache_op.fetches = 1
               /\ first_id(cache_op.k, cache_op.name, listing(cache_op.k))
                    = None
       /\ (cache_op.kind = "return" /\ cache_op.retval # None)
            => cache_op.retval
                 = first_id(cache_op.k, cache_op.name, listing(cache_op.k))
       /\ (cache_op.null_ok
             /\ first_id(cache_op.k, cache_op.name, listing(cache_op.k))
                  = None)
            => (cache_op.kind = "return" /\ cache_op.retval = None)

\* the running batch is a page of two equal rows of one user
EqualRows ==
    /\ batch.state = "running" /\ Len(w) = 2
    /\ sync.page <= Len(reports) /\ Len(reports[sync.page]) = 2
    /\ reports[sync.page][1] = reports[sync.page][2]

TokenOf(email) == api_users[first_api_user(PyStr(email))].token
UserIdOf(email) == api_users[first_api_user(PyStr(email))].clockify_id

\* C32: whatever the interleaving of the workers, every duplicate-check
\* query and every create request of an entry carries the API token of the
\* entry's own user, and the user id under which the entry's candidates are
\* looked up and compared is the id of that user.
C32_OwnIdentity ==
    \A i \in DOMAIN w :
        /\ \A k \in DOMAIN w[i].sent :
              w[i].sent[k].token = TokenOf(w[i].e.email)
        /\ w[i].e.user_id # None => w[i].e.user_id = UserIdOf(w[i].e.email)
        /\ \A k \in DOMAIN w[i].cands :
              w[i].cands[k].userId = UserIdOf(w[i].e.email)

\* the entries of two different users were in one batch: the first worker
\* had sent its query when the second sent query and create request, and
\* then sent its own create request
C32_Witness ==
    /\ Len(w) = 2 /\ w[1].e.email # w[2].e.email
    /\ w[1].pc \in {"counting", "done"} /\ w[2].pc \in {"counting", "done"}
    /\ Len(w[1].sent) = 2 /\ Len(w[2].sent) = 2
    /\ w[1].sent[2].typ = "POST" /\ w[2].sent[2].typ = "POST"
    /\ w[1].payload # NoneOf /\ w[2].payload # NoneOf
    /\ w[1].payload[1].id > w[2].payload[1].id

\* C33: every read get_clients / get_projects / get_tags / get_usergroups /
\* get_users (workspace), whatever was read before it, returns the entities
\* Target holds in the requested workspace (the lists of the model are those
\* of workspace ws).
C33_ReadOfWorkspace ==
    (cache_op.op = "get" /\ cache_op.name \in Workspaces)
    => /\ cache_op.kind = "return"
       /\ cache_op.val = listing(cache_op.k)

\* C34: the counters a phase returns add up to the items it considered,
\* every item being counted once as ok, skipped or failed, and ok counts the
\* items whose create call succeeded (here for the tags and groups phases;
\* the counters of the entries phase are those of C19).
C34_CountersAddUp ==
    pf.op = "sync_counts"
    => /\ pf.val[1].num = Len(pf.other[1])
       /\ pf.val[1].num_ok + pf.val[1].num_skips + pf.val[1].num_err
            = pf.val[1].num
       /\ pf.val[1].num_ok
            = Cardinality({i \in DOMAIN pf.other[1] :
                             created_status(pf.e[1], pf.other[1][i])})

\* what a fetch returns when no page is skipped and none is appended twice
WholeListing ==
    [i \in 1..(IF mg.server = "stuck" THEN page_size ELSE mg.n) |-> i]

\* C35: a page request of multi_get_request that is answered 429 is repeated
\* with the same page number: the loop goes on with page and list unchanged
\* and the caller gets the whole list, no page skipped or appended twice;
\* a request answered with another status than 200 and 429 ends the fetch
\* with an error and nothing is returned.
C35_ThrottledPageRetried ==
    /\ [](mg.pc = "returned" => mg.retval_data = WholeListing)
    /\ [][/\ (mg.pc = "loop" /\ mg'.throttled # mg.throttled)
               => /\ mg'.pc = "loop" /\ mg'.page = mg.page
                  /\ mg'.retval_data = mg.retval_data
                  /\ mg'.served = mg.served
          /\ (mg.pc = "loop" /\ mg'.pc = "raised")
               => /\ mg'.exc = "RuntimeError"
                  /\ mg'.throttled = mg.throttled]_vars

\* a fetch of 101 items that was answered 429 twice returned all of them
\* after three pages
C35_Witness ==
    /\ mg.pc = "returned" /\ mg.server = "consecutive" /\ mg.n = 101
    /\ mg.throttled = MaxThrottles /\ mg.served = 3
    /\ mg.retval_data = WholeListing

\* C36: for since < until the date windows get_reports requests lie end to
\* end and cover the range: the first starts at since (day 0), each next one
\* starts where the one before ended, every window is more than 0 and at
\* most 300 days wide, and a stream that finished has requested
\* ceil((until - since) / 300) windows, the last of which ends at until.
C36_WindowsCoverRange ==
    /\ \A k \in DOMAIN st.wins :
          /\ st.wins[k].since = (IF k = 1 THEN 0 ELSE st.wins[k - 1].until)
          /\ st.wins[k].until - st.wins[k].since <= WindowDays
          /\ st.wins[k].until - st.wins[k].since > 0
    /\ st.pc = "finished"
          => /\ st.wins[Len(st.wins)].until = st.until
             /\ Len(st.wins) = (st.until + WindowDays - 1) \div WindowDays

\* C37: delete_user_entries comes to an end whenever every request gets a
\* response, rejected deletes included, and when it returns after a query
\* that succeeded Target holds no time entry of the user.
C37_DeleteTerminates ==
    /\ <>(dl.pc \in {"returned", "raised"})
    /\ []((dl.pc = "returned" /\ dl.queried = 200)
            => entries_of(t_entries, dl.user_id) = <<>>)

\* C38: while a batch runs the completed count of the status pair never
\* exceeds the total count, and when add_entries_threaded returns both equal
\* the number of entries of the batch, whatever the interleaving of the
\* workers' increments.
C38_StatusPair ==
    /\ batch.state = "running"
         => batch.status_indicator[1] <= batch.status_indicator[2]
    /\ batch.state = "returned"
         => /\ batch.status_indicator[2] = Len(w)
            /\ batch.status_indicator[1] = batch.status_indicator[2]

====
